---- MODULE Spec2Model ----
(***************************************************************************)
(* Model of stremio_to_trakt.py: the StremioHTMLParser scanner, driven one *)
(* handler call at a time (specification Spec), and the main() pipeline    *)
(* that reads a document, scans it, filters, converts and writes           *)
(* (specification SpecMain).                                               *)
(*                                                                         *)
(* Python values are tagged records [t |-> tag, v |-> payload] so that     *)
(* None, '', 0 and False stay distinct.  A str is the sequence of its code *)
(* points, S("...") the str a literal spells, and the str operations the   *)
(* code applies (in, lower, strip, re.search, int, float, unquote) are     *)
(* computed character by character over all of Unicode 14, the version of  *)
(* Python 3.11.  TLA+ strings stand for the keys of dicts, the names of    *)
(* tags and attributes, and the texts the program itself spells.           *)
(***************************************************************************)
EXTENDS Integers, Sequences, FiniteSets, TLC

VARIABLES
    items,              \* parser.items: sequence of finalized dicts
    current_item,       \* parser.current_item: None or a dict
    in_meta_item,       \* parser.in_meta_item
    in_title_label,     \* parser.in_title_label (never written after __init__)
    capture_text,       \* parser.capture_text
    current_text_field, \* parser.current_text_field: None or a str
    err,                \* exception that left a handler, "none" while running
    log,                \* history: the handler calls made so far, in order
    family,             \* the class of documents the calls are drawn from
    pc,                 \* main(): position
    argv,               \* sys.argv[1:], the command line
    args,               \* main(): the namespace parse_args returned
    html_content,       \* main(): the document read from the input
    main_items,         \* main(): the local variable items
    trakt_items,        \* main(): result of convert_to_trakt_format
    output,             \* main(): result of format_for_trakt_import
    stdout,             \* what has been written to sys.stdout
    files,              \* the files the run has opened for writing, and
                        \* what each holds now
    exit_code           \* process exit status, -1 while running

scanVars == <<items, current_item, in_meta_item, in_title_label, capture_text,
              current_text_field, err>>
mainVars == <<pc, argv, args, html_content, main_items, trakt_items, output,
              stdout, files, exit_code>>
vars == <<items, current_item, in_meta_item, in_title_label, capture_text,
          current_text_field, err, log, family, pc, argv, args, html_content,
          main_items, trakt_items, output, stdout, files, exit_code>>

-----------------------------------------------------------------------------
(* Bounds *)

MaxEvents == 5
MaxCards == 2

-----------------------------------------------------------------------------
(* Python values *)

None == [t |-> "none", v |-> 0]
PyStr(s) == [t |-> "str", v |-> s]
\* an int is the sequence of its decimal digits, the ones str() writes for
\* it, the first one first; none is negative here
PyInt(n) ==
    LET RECURSIVE Decimal(_)
        Decimal(k) == IF k < 10 THEN <<k>> ELSE Append(Decimal(k \div 10), k % 10)
    IN [t |-> "int", v |-> Decimal(n)]
PyBool(b) == [t |-> "bool", v |-> b]
PyDict(d) == [t |-> "dict", v |-> d]
\* a float is its binary64: the sign bit, the 11 bits of the exponent and the
\* 52 bits of the fraction, the upper 26 of them in hi and the lower 26 in lo.
\* float('inf') is PyFloat(0, 2047, 0, 0), float('nan') PyFloat(0, 2047, 2^25, 0)
PyFloat(sign, exp, hi, lo) ==
    [t |-> "float", v |-> [sign |-> sign, exp |-> exp, hi |-> hi, lo |-> lo]]
\* a list without elements
EmptyList == [t |-> "list", v |-> <<>>]

IsNone(x) == x.t = "none"

EmptyDict == [k \in {} |-> None]

\* bool(x)
Truthy(x) ==
    CASE x.t = "none" -> FALSE
      [] x.t = "str" -> Len(x.v) > 0
      [] x.t = "int" -> x.v # <<0>>
      [] x.t = "bool" -> x.v
      [] x.t = "float" -> x.v.exp # 0 \/ x.v.hi # 0 \/ x.v.lo # 0
      [] x.t = "list" -> Len(x.v) > 0
      [] x.t = "dict" -> DOMAIN x.v # {}

\* d.get(k, default)
Get(d, k, default) == IF k \in DOMAIN d THEN d[k] ELSE default

\* d[k] = x
SetItem(d, k, x) == [j \in DOMAIN d \cup {k} |-> IF j = k THEN x ELSE d[j]]

-----------------------------------------------------------------------------
(* str operations.  A str is the sequence of its code points. *)

\* the str that a literal spells: ord() of each character, 32 for the space
\* up to 126 for the tilde, and 10 for the line feed
Ascii == " !\"#$%&'()*+,-./0123456789:;<=>?@ABCDEFGHIJKLMNOPQRSTUVWXYZ[\\]^_"
             \o SubSeq("`'", 1, 1) \o "abcdefghijklmnopqrstuvwxyz{|}~"
Ord == [c \in {SubSeq(Ascii, i, i) : i \in 1..Len(Ascii)} |->
            31 + (CHOOSE i \in 1..Len(Ascii) : SubSeq(Ascii, i, i) = c)]
           @@ ("\n" :> 10)
RECURSIVE S(_)
S(s) == IF Len(s) = 0 THEN <<>> ELSE <<Ord[SubSeq(s, 1, 1)]>> \o S(Tail(s))

Ch(s, i) == s[i]

\* \d, str.isdecimal(): the 660 decimal digits of Unicode 14 come in 66 runs
\* of ten, 0 to 9 in order; DigitZeros holds the zero of each run
DigitZeros == {48, 1632, 1776, 1984, 2406, 2534, 2662, 2790, 2918, 3046, 3174,
               3302, 3430, 3558, 3664, 3792, 3872, 4160, 4240, 6112, 6160,
               6470, 6608, 6784, 6800, 6992, 7088, 7232, 7248, 42528, 43216,
               43264, 43472, 43504, 43600, 44016, 65296, 66720, 68912, 69734,
               69872, 69942, 70096, 70384, 70736, 70864, 71248, 71360, 71472,
               71904, 72016, 72784, 73040, 73120, 92768, 92864, 93008, 120782,
               120792, 120802, 120812, 120822, 123200, 123632, 125264, 130032}
Digit == UNION {z..(z + 9) : z \in DigitZeros}
\* the value int() and float() give a decimal digit
DigitValue(c) == c - (CHOOSE z \in DigitZeros : c \in z..(z + 9))

\* \s and the characters str.strip() removes: the 29 characters for which
\* str.isspace() holds
Space == 9..13 \cup 28..32 \cup {133, 160, 5760} \cup 8192..8202
             \cup {8232, 8233, 8239, 8287, 12288}

\* \w, str.isalnum() or '_': the 133548 characters of these ranges
WordRanges ==
    {<<48, 57>>, <<65, 90>>, <<95, 95>>, <<97, 122>>, <<170, 170>>, <<178,
     179>>, <<181, 181>>, <<185, 186>>, <<188, 190>>, <<192, 214>>, <<216,
     246>>, <<248, 705>>, <<710, 721>>, <<736, 740>>, <<748, 748>>, <<750,
     750>>, <<880, 884>>, <<886, 887>>, <<890, 893>>, <<895, 895>>, <<902,
     902>>, <<904, 906>>, <<908, 908>>, <<910, 929>>, <<931, 1013>>, <<1015,
     1153>>, <<1162, 1327>>, <<1329, 1366>>, <<1369, 1369>>, <<1376, 1416>>,
     <<1488, 1514>>, <<1519, 1522>>, <<1568, 1610>>, <<1632, 1641>>, <<1646,
     1647>>, <<1649, 1747>>, <<1749, 1749>>, <<1765, 1766>>, <<1774, 1788>>,
     <<1791, 1791>>, <<1808, 1808>>, <<1810, 1839>>, <<1869, 1957>>, <<1969,
     1969>>, <<1984, 2026>>, <<2036, 2037>>, <<2042, 2042>>, <<2048, 2069>>,
     <<2074, 2074>>, <<2084, 2084>>, <<2088, 2088>>, <<2112, 2136>>, <<2144,
     2154>>, <<2160, 2183>>, <<2185, 2190>>, <<2208, 2249>>, <<2308, 2361>>,
     <<2365, 2365>>, <<2384, 2384>>, <<2392, 2401>>, <<2406, 2415>>, <<2417,
     2432>>, <<2437, 2444>>, <<2447, 2448>>, <<2451, 2472>>, <<2474, 2480>>,
     <<2482, 2482>>, <<2486, 2489>>, <<2493, 2493>>, <<2510, 2510>>, <<2524,
     2525>>, <<2527, 2529>>, <<2534, 2545>>, <<2548, 2553>>, <<2556, 2556>>,
     <<2565, 2570>>, <<2575, 2576>>, <<2579, 2600>>, <<2602, 2608>>, <<2610,
     2611>>, <<2613, 2614>>, <<2616, 2617>>, <<2649, 2652>>, <<2654, 2654>>,
     <<2662, 2671>>, <<2674, 2676>>, <<2693, 2701>>, <<2703, 2705>>, <<2707,
     2728>>, <<2730, 2736>>, <<2738, 2739>>, <<2741, 2745>>, <<2749, 2749>>,
     <<2768, 2768>>, <<2784, 2785>>, <<2790, 2799>>, <<2809, 2809>>, <<2821,
     2828>>, <<2831, 2832>>, <<2835, 2856>>, <<2858, 2864>>, <<2866, 2867>>,
     <<2869, 2873>>, <<2877, 2877>>, <<2908, 2909>>, <<2911, 2913>>, <<2918,
     2927>>, <<2929, 2935>>, <<2947, 2947>>, <<2949, 2954>>, <<2958, 2960>>,
     <<2962, 2965>>, <<2969, 2970>>, <<2972, 2972>>, <<2974, 2975>>, <<2979,
     2980>>, <<2984, 2986>>, <<2990, 3001>>, <<3024, 3024>>, <<3046, 3058>>,
     <<3077, 3084>>, <<3086, 3088>>, <<3090, 3112>>, <<3114, 3129>>, <<3133,
     3133>>, <<3160, 3162>>, <<3165, 3165>>, <<3168, 3169>>, <<3174, 3183>>,
     <<3192, 3198>>, <<3200, 3200>>, <<3205, 3212>>, <<3214, 3216>>, <<3218,
     3240>>, <<3242, 3251>>, <<3253, 3257>>, <<3261, 3261>>, <<3293, 3294>>,
     <<3296, 3297>>, <<3302, 3311>>, <<3313, 3314>>, <<3332, 3340>>, <<3342,
     3344>>, <<3346, 3386>>, <<3389, 3389>>, <<3406, 3406>>, <<3412, 3414>>,
     <<3416, 3425>>, <<3430, 3448>>, <<3450, 3455>>, <<3461, 3478>>, <<3482,
     3505>>, <<3507, 3515>>, <<3517, 3517>>, <<3520, 3526>>, <<3558, 3567>>,
     <<3585, 3632>>, <<3634, 3635>>, <<3648, 3654>>, <<3664, 3673>>, <<3713,
     3714>>, <<3716, 3716>>, <<3718, 3722>>, <<3724, 3747>>, <<3749, 3749>>,
     <<3751, 3760>>, <<3762, 3763>>, <<3773, 3773>>, <<3776, 3780>>, <<3782,
     3782>>, <<3792, 3801>>, <<3804, 3807>>, <<3840, 3840>>, <<3872, 3891>>,
     <<3904, 3911>>, <<3913, 3948>>, <<3976, 3980>>, <<4096, 4138>>, <<4159,
     4169>>, <<4176, 4181>>, <<4186, 4189>>, <<4193, 4193>>, <<4197, 4198>>,
     <<4206, 4208>>, <<4213, 4225>>, <<4238, 4238>>, <<4240, 4249>>, <<4256,
     4293>>, <<4295, 4295>>, <<4301, 4301>>, <<4304, 4346>>, <<4348, 4680>>,
     <<4682, 4685>>, <<4688, 4694>>, <<4696, 4696>>, <<4698, 4701>>, <<4704,
     4744>>, <<4746, 4749>>, <<4752, 4784>>, <<4786, 4789>>, <<4792, 4798>>,
     <<4800, 4800>>, <<4802, 4805>>, <<4808, 4822>>, <<4824, 4880>>, <<4882,
     4885>>, <<4888, 4954>>, <<4969, 4988>>, <<4992, 5007>>, <<5024, 5109>>,
     <<5112, 5117>>, <<5121, 5740>>, <<5743, 5759>>, <<5761, 5786>>, <<5792,
     5866>>, <<5870, 5880>>, <<5888, 5905>>, <<5919, 5937>>, <<5952, 5969>>,
     <<5984, 5996>>, <<5998, 6000>>, <<6016, 6067>>, <<6103, 6103>>, <<6108,
     6108>>, <<6112, 6121>>, <<6128, 6137>>, <<6160, 6169>>, <<6176, 6264>>,
     <<6272, 6276>>, <<6279, 6312>>, <<6314, 6314>>, <<6320, 6389>>, <<6400,
     6430>>, <<6470, 6509>>, <<6512, 6516>>, <<6528, 6571>>, <<6576, 6601>>,
     <<6608, 6618>>, <<6656, 6678>>, <<6688, 6740>>, <<6784, 6793>>, <<6800,
     6809>>, <<6823, 6823>>, <<6917, 6963>>, <<6981, 6988>>, <<6992, 7001>>,
     <<7043, 7072>>, <<7086, 7141>>, <<7168, 7203>>, <<7232, 7241>>, <<7245,
     7293>>, <<7296, 7304>>, <<7312, 7354>>, <<7357, 7359>>, <<7401, 7404>>,
     <<7406, 7411>>, <<7413, 7414>>, <<7418, 7418>>, <<7424, 7615>>, <<7680,
     7957>>, <<7960, 7965>>, <<7968, 8005>>, <<8008, 8013>>, <<8016, 8023>>,
     <<8025, 8025>>, <<8027, 8027>>, <<8029, 8029>>, <<8031, 8061>>, <<8064,
     8116>>, <<8118, 8124>>, <<8126, 8126>>, <<8130, 8132>>, <<8134, 8140>>,
     <<8144, 8147>>, <<8150, 8155>>, <<8160, 8172>>, <<8178, 8180>>, <<8182,
     8188>>, <<8304, 8305>>, <<8308, 8313>>, <<8319, 8329>>, <<8336, 8348>>,
     <<8450, 8450>>, <<8455, 8455>>, <<8458, 8467>>, <<8469, 8469>>, <<8473,
     8477>>, <<8484, 8484>>, <<8486, 8486>>, <<8488, 8488>>, <<8490, 8493>>,
     <<8495, 8505>>, <<8508, 8511>>, <<8517, 8521>>, <<8526, 8526>>, <<8528,
     8585>>, <<9312, 9371>>, <<9450, 9471>>, <<10102, 10131>>, <<11264,
     11492>>, <<11499, 11502>>, <<11506, 11507>>, <<11517, 11517>>, <<11520,
     11557>>, <<11559, 11559>>, <<11565, 11565>>, <<11568, 11623>>, <<11631,
     11631>>, <<11648, 11670>>, <<11680, 11686>>, <<11688, 11694>>, <<11696,
     11702>>, <<11704, 11710>>, <<11712, 11718>>, <<11720, 11726>>, <<11728,
     11734>>, <<11736, 11742>>, <<11823, 11823>>, <<12293, 12295>>, <<12321,
     12329>>, <<12337, 12341>>, <<12344, 12348>>, <<12353, 12438>>, <<12445,
     12447>>, <<12449, 12538>>, <<12540, 12543>>, <<12549, 12591>>, <<12593,
     12686>>, <<12690, 12693>>, <<12704, 12735>>, <<12784, 12799>>, <<12832,
     12841>>, <<12872, 12879>>, <<12881, 12895>>, <<12928, 12937>>, <<12977,
     12991>>, <<13312, 19903>>, <<19968, 42124>>, <<42192, 42237>>, <<42240,
     42508>>, <<42512, 42539>>, <<42560, 42606>>, <<42623, 42653>>, <<42656,
     42735>>, <<42775, 42783>>, <<42786, 42888>>, <<42891, 42954>>, <<42960,
     42961>>, <<42963, 42963>>, <<42965, 42969>>, <<42994, 43009>>, <<43011,
     43013>>, <<43015, 43018>>, <<43020, 43042>>, <<43056, 43061>>, <<43072,
     43123>>, <<43138, 43187>>, <<43216, 43225>>, <<43250, 43255>>, <<43259,
     43259>>, <<43261, 43262>>, <<43264, 43301>>, <<43312, 43334>>, <<43360,
     43388>>, <<43396, 43442>>, <<43471, 43481>>, <<43488, 43492>>, <<43494,
     43518>>, <<43520, 43560>>, <<43584, 43586>>, <<43588, 43595>>, <<43600,
     43609>>, <<43616, 43638>>, <<43642, 43642>>, <<43646, 43695>>, <<43697,
     43697>>, <<43701, 43702>>, <<43705, 43709>>, <<43712, 43712>>, <<43714,
     43714>>, <<43739, 43741>>, <<43744, 43754>>, <<43762, 43764>>, <<43777,
     43782>>, <<43785, 43790>>, <<43793, 43798>>, <<43808, 43814>>, <<43816,
     43822>>, <<43824, 43866>>, <<43868, 43881>>, <<43888, 44002>>, <<44016,
     44025>>, <<44032, 55203>>, <<55216, 55238>>, <<55243, 55291>>, <<63744,
     64109>>, <<64112, 64217>>, <<64256, 64262>>, <<64275, 64279>>, <<64285,
     64285>>, <<64287, 64296>>, <<64298, 64310>>, <<64312, 64316>>, <<64318,
     64318>>, <<64320, 64321>>, <<64323, 64324>>, <<64326, 64433>>, <<64467,
     64829>>, <<64848, 64911>>, <<64914, 64967>>, <<65008, 65019>>, <<65136,
     65140>>, <<65142, 65276>>, <<65296, 65305>>, <<65313, 65338>>, <<65345,
     65370>>, <<65382, 65470>>, <<65474, 65479>>, <<65482, 65487>>, <<65490,
     65495>>, <<65498, 65500>>, <<65536, 65547>>, <<65549, 65574>>, <<65576,
     65594>>, <<65596, 65597>>, <<65599, 65613>>, <<65616, 65629>>, <<65664,
     65786>>, <<65799, 65843>>, <<65856, 65912>>, <<65930, 65931>>, <<66176,
     66204>>, <<66208, 66256>>, <<66273, 66299>>, <<66304, 66339>>, <<66349,
     66378>>, <<66384, 66421>>, <<66432, 66461>>, <<66464, 66499>>, <<66504,
     66511>>, <<66513, 66517>>, <<66560, 66717>>, <<66720, 66729>>, <<66736,
     66771>>, <<66776, 66811>>, <<66816, 66855>>, <<66864, 66915>>, <<66928,
     66938>>, <<66940, 66954>>, <<66956, 66962>>, <<66964, 66965>>, <<66967,
     66977>>, <<66979, 66993>>, <<66995, 67001>>, <<67003, 67004>>, <<67072,
     67382>>, <<67392, 67413>>, <<67424, 67431>>, <<67456, 67461>>, <<67463,
     67504>>, <<67506, 67514>>, <<67584, 67589>>, <<67592, 67592>>, <<67594,
     67637>>, <<67639, 67640>>, <<67644, 67644>>, <<67647, 67669>>, <<67672,
     67702>>, <<67705, 67742>>, <<67751, 67759>>, <<67808, 67826>>, <<67828,
     67829>>, <<67835, 67867>>, <<67872, 67897>>, <<67968, 68023>>, <<68028,
     68047>>, <<68050, 68096>>, <<68112, 68115>>, <<68117, 68119>>, <<68121,
     68149>>, <<68160, 68168>>, <<68192, 68222>>, <<68224, 68255>>, <<68288,
     68295>>, <<68297, 68324>>, <<68331, 68335>>, <<68352, 68405>>, <<68416,
     68437>>, <<68440, 68466>>, <<68472, 68497>>, <<68521, 68527>>, <<68608,
     68680>>, <<68736, 68786>>, <<68800, 68850>>, <<68858, 68899>>, <<68912,
     68921>>, <<69216, 69246>>, <<69248, 69289>>, <<69296, 69297>>, <<69376,
     69415>>, <<69424, 69445>>, <<69457, 69460>>, <<69488, 69505>>, <<69552,
     69579>>, <<69600, 69622>>, <<69635, 69687>>, <<69714, 69743>>, <<69745,
     69746>>, <<69749, 69749>>, <<69763, 69807>>, <<69840, 69864>>, <<69872,
     69881>>, <<69891, 69926>>, <<69942, 69951>>, <<69956, 69956>>, <<69959,
     69959>>, <<69968, 70002>>, <<70006, 70006>>, <<70019, 70066>>, <<70081,
     70084>>, <<70096, 70106>>, <<70108, 70108>>, <<70113, 70132>>, <<70144,
     70161>>, <<70163, 70187>>, <<70272, 70278>>, <<70280, 70280>>, <<70282,
     70285>>, <<70287, 70301>>, <<70303, 70312>>, <<70320, 70366>>, <<70384,
     70393>>, <<70405, 70412>>, <<70415, 70416>>, <<70419, 70440>>, <<70442,
     70448>>, <<70450, 70451>>, <<70453, 70457>>, <<70461, 70461>>, <<70480,
     70480>>, <<70493, 70497>>, <<70656, 70708>>, <<70727, 70730>>, <<70736,
     70745>>, <<70751, 70753>>, <<70784, 70831>>, <<70852, 70853>>, <<70855,
     70855>>, <<70864, 70873>>, <<71040, 71086>>, <<71128, 71131>>, <<71168,
     71215>>, <<71236, 71236>>, <<71248, 71257>>, <<71296, 71338>>, <<71352,
     71352>>, <<71360, 71369>>, <<71424, 71450>>, <<71472, 71483>>, <<71488,
     71494>>, <<71680, 71723>>, <<71840, 71922>>, <<71935, 71942>>, <<71945,
     71945>>, <<71948, 71955>>, <<71957, 71958>>, <<71960, 71983>>, <<71999,
     71999>>, <<72001, 72001>>, <<72016, 72025>>, <<72096, 72103>>, <<72106,
     72144>>, <<72161, 72161>>, <<72163, 72163>>, <<72192, 72192>>, <<72203,
     72242>>, <<72250, 72250>>, <<72272, 72272>>, <<72284, 72329>>, <<72349,
     72349>>, <<72368, 72440>>, <<72704, 72712>>, <<72714, 72750>>, <<72768,
     72768>>, <<72784, 72812>>, <<72818, 72847>>, <<72960, 72966>>, <<72968,
     72969>>, <<72971, 73008>>, <<73030, 73030>>, <<73040, 73049>>, <<73056,
     73061>>, <<73063, 73064>>, <<73066, 73097>>, <<73112, 73112>>, <<73120,
     73129>>, <<73440, 73458>>, <<73648, 73648>>, <<73664, 73684>>, <<73728,
     74649>>, <<74752, 74862>>, <<74880, 75075>>, <<77712, 77808>>, <<77824,
     78894>>, <<82944, 83526>>, <<92160, 92728>>, <<92736, 92766>>, <<92768,
     92777>>, <<92784, 92862>>, <<92864, 92873>>, <<92880, 92909>>, <<92928,
     92975>>, <<92992, 92995>>, <<93008, 93017>>, <<93019, 93025>>, <<93027,
     93047>>, <<93053, 93071>>, <<93760, 93846>>, <<93952, 94026>>, <<94032,
     94032>>, <<94099, 94111>>, <<94176, 94177>>, <<94179, 94179>>, <<94208,
     100343>>, <<100352, 101589>>, <<101632, 101640>>, <<110576, 110579>>,
     <<110581, 110587>>, <<110589, 110590>>, <<110592, 110882>>, <<110928,
     110930>>, <<110948, 110951>>, <<110960, 111355>>, <<113664, 113770>>,
     <<113776, 113788>>, <<113792, 113800>>, <<113808, 113817>>, <<119520,
     119539>>, <<119648, 119672>>, <<119808, 119892>>, <<119894, 119964>>,
     <<119966, 119967>>, <<119970, 119970>>, <<119973, 119974>>, <<119977,
     119980>>, <<119982, 119993>>, <<119995, 119995>>, <<119997, 120003>>,
     <<120005, 120069>>, <<120071, 120074>>, <<120077, 120084>>, <<120086,
     120092>>, <<120094, 120121>>, <<120123, 120126>>, <<120128, 120132>>,
     <<120134, 120134>>, <<120138, 120144>>, <<120146, 120485>>, <<120488,
     120512>>, <<120514, 120538>>, <<120540, 120570>>, <<120572, 120596>>,
     <<120598, 120628>>, <<120630, 120654>>, <<120656, 120686>>, <<120688,
     120712>>, <<120714, 120744>>, <<120746, 120770>>, <<120772, 120779>>,
     <<120782, 120831>>, <<122624, 122654>>, <<123136, 123180>>, <<123191,
     123197>>, <<123200, 123209>>, <<123214, 123214>>, <<123536, 123565>>,
     <<123584, 123627>>, <<123632, 123641>>, <<124896, 124902>>, <<124904,
     124907>>, <<124909, 124910>>, <<124912, 124926>>, <<124928, 125124>>,
     <<125127, 125135>>, <<125184, 125251>>, <<125259, 125259>>, <<125264,
     125273>>, <<126065, 126123>>, <<126125, 126127>>, <<126129, 126132>>,
     <<126209, 126253>>, <<126255, 126269>>, <<126464, 126467>>, <<126469,
     126495>>, <<126497, 126498>>, <<126500, 126500>>, <<126503, 126503>>,
     <<126505, 126514>>, <<126516, 126519>>, <<126521, 126521>>, <<126523,
     126523>>, <<126530, 126530>>, <<126535, 126535>>, <<126537, 126537>>,
     <<126539, 126539>>, <<126541, 126543>>, <<126545, 126546>>, <<126548,
     126548>>, <<126551, 126551>>, <<126553, 126553>>, <<126555, 126555>>,
     <<126557, 126557>>, <<126559, 126559>>, <<126561, 126562>>, <<126564,
     126564>>, <<126567, 126570>>, <<126572, 126578>>, <<126580, 126583>>,
     <<126585, 126588>>, <<126590, 126590>>, <<126592, 126601>>, <<126603,
     126619>>, <<126625, 126627>>, <<126629, 126633>>, <<126635, 126651>>,
     <<127232, 127244>>, <<130032, 130041>>, <<131072, 173791>>, <<173824,
     177976>>, <<177984, 178205>>, <<178208, 183969>>, <<183984, 191456>>,
     <<194560, 195101>>, <<196608, 201546>>}
Word == UNION {r[1]..r[2] : r \in WordRanges}

\* str.lower() of one character that becomes one other character: runs
\* <<first, last, step, delta>>; every step-th character from first to last
\* becomes the character delta further on
LowerRuns ==
    {<<65, 90, 1, 32>>, <<192, 214, 1, 32>>, <<216, 222, 1, 32>>, <<256, 302,
     2, 1>>, <<306, 310, 2, 1>>, <<313, 327, 2, 1>>, <<330, 374, 2, 1>>,
     <<376, 376, 1, -121>>, <<377, 381, 2, 1>>, <<385, 385, 1, 210>>, <<386,
     388, 2, 1>>, <<390, 390, 1, 206>>, <<391, 391, 1, 1>>, <<393, 394, 1,
     205>>, <<395, 395, 1, 1>>, <<398, 398, 1, 79>>, <<399, 399, 1, 202>>,
     <<400, 400, 1, 203>>, <<401, 401, 1, 1>>, <<403, 403, 1, 205>>, <<404,
     404, 1, 207>>, <<406, 406, 1, 211>>, <<407, 407, 1, 209>>, <<408, 408, 1,
     1>>, <<412, 412, 1, 211>>, <<413, 413, 1, 213>>, <<415, 415, 1, 214>>,
     <<416, 420, 2, 1>>, <<422, 422, 1, 218>>, <<423, 423, 1, 1>>, <<425, 425,
     1, 218>>, <<428, 428, 1, 1>>, <<430, 430, 1, 218>>, <<431, 431, 1, 1>>,
     <<433, 434, 1, 217>>, <<435, 437, 2, 1>>, <<439, 439, 1, 219>>, <<440,
     440, 1, 1>>, <<444, 444, 1, 1>>, <<452, 452, 1, 2>>, <<453, 453, 1, 1>>,
     <<455, 455, 1, 2>>, <<456, 456, 1, 1>>, <<458, 458, 1, 2>>, <<459, 475,
     2, 1>>, <<478, 494, 2, 1>>, <<497, 497, 1, 2>>, <<498, 500, 2, 1>>,
     <<502, 502, 1, -97>>, <<503, 503, 1, -56>>, <<504, 542, 2, 1>>, <<544,
     544, 1, -130>>, <<546, 562, 2, 1>>, <<570, 570, 1, 10795>>, <<571, 571,
     1, 1>>, <<573, 573, 1, -163>>, <<574, 574, 1, 10792>>, <<577, 577, 1,
     1>>, <<579, 579, 1, -195>>, <<580, 580, 1, 69>>, <<581, 581, 1, 71>>,
     <<582, 590, 2, 1>>, <<880, 882, 2, 1>>, <<886, 886, 1, 1>>, <<895, 895,
     1, 116>>, <<902, 902, 1, 38>>, <<904, 906, 1, 37>>, <<908, 908, 1, 64>>,
     <<910, 911, 1, 63>>, <<913, 929, 1, 32>>, <<931, 939, 1, 32>>, <<975,
     975, 1, 8>>, <<984, 1006, 2, 1>>, <<1012, 1012, 1, -60>>, <<1015, 1015,
     1, 1>>, <<1017, 1017, 1, -7>>, <<1018, 1018, 1, 1>>, <<1021, 1023, 1,
     -130>>, <<1024, 1039, 1, 80>>, <<1040, 1071, 1, 32>>, <<1120, 1152, 2,
     1>>, <<1162, 1214, 2, 1>>, <<1216, 1216, 1, 15>>, <<1217, 1229, 2, 1>>,
     <<1232, 1326, 2, 1>>, <<1329, 1366, 1, 48>>, <<4256, 4293, 1, 7264>>,
     <<4295, 4295, 1, 7264>>, <<4301, 4301, 1, 7264>>, <<5024, 5103, 1,
     38864>>, <<5104, 5109, 1, 8>>, <<7312, 7354, 1, -3008>>, <<7357, 7359, 1,
     -3008>>, <<7680, 7828, 2, 1>>, <<7838, 7838, 1, -7615>>, <<7840, 7934, 2,
     1>>, <<7944, 7951, 1, -8>>, <<7960, 7965, 1, -8>>, <<7976, 7983, 1, -8>>,
     <<7992, 7999, 1, -8>>, <<8008, 8013, 1, -8>>, <<8025, 8031, 2, -8>>,
     <<8040, 8047, 1, -8>>, <<8072, 8079, 1, -8>>, <<8088, 8095, 1, -8>>,
     <<8104, 8111, 1, -8>>, <<8120, 8121, 1, -8>>, <<8122, 8123, 1, -74>>,
     <<8124, 8124, 1, -9>>, <<8136, 8139, 1, -86>>, <<8140, 8140, 1, -9>>,
     <<8152, 8153, 1, -8>>, <<8154, 8155, 1, -100>>, <<8168, 8169, 1, -8>>,
     <<8170, 8171, 1, -112>>, <<8172, 8172, 1, -7>>, <<8184, 8185, 1, -128>>,
     <<8186, 8187, 1, -126>>, <<8188, 8188, 1, -9>>, <<8486, 8486, 1, -7517>>,
     <<8490, 8490, 1, -8383>>, <<8491, 8491, 1, -8262>>, <<8498, 8498, 1,
     28>>, <<8544, 8559, 1, 16>>, <<8579, 8579, 1, 1>>, <<9398, 9423, 1, 26>>,
     <<11264, 11311, 1, 48>>, <<11360, 11360, 1, 1>>, <<11362, 11362, 1,
     -10743>>, <<11363, 11363, 1, -3814>>, <<11364, 11364, 1, -10727>>,
     <<11367, 11371, 2, 1>>, <<11373, 11373, 1, -10780>>, <<11374, 11374, 1,
     -10749>>, <<11375, 11375, 1, -10783>>, <<11376, 11376, 1, -10782>>,
     <<11378, 11378, 1, 1>>, <<11381, 11381, 1, 1>>, <<11390, 11391, 1,
     -10815>>, <<11392, 11490, 2, 1>>, <<11499, 11501, 2, 1>>, <<11506, 11506,
     1, 1>>, <<42560, 42604, 2, 1>>, <<42624, 42650, 2, 1>>, <<42786, 42798,
     2, 1>>, <<42802, 42862, 2, 1>>, <<42873, 42875, 2, 1>>, <<42877, 42877,
     1, -35332>>, <<42878, 42886, 2, 1>>, <<42891, 42891, 1, 1>>, <<42893,
     42893, 1, -42280>>, <<42896, 42898, 2, 1>>, <<42902, 42920, 2, 1>>,
     <<42922, 42922, 1, -42308>>, <<42923, 42923, 1, -42319>>, <<42924, 42924,
     1, -42315>>, <<42925, 42925, 1, -42305>>, <<42926, 42926, 1, -42308>>,
     <<42928, 42928, 1, -42258>>, <<42929, 42929, 1, -42282>>, <<42930, 42930,
     1, -42261>>, <<42931, 42931, 1, 928>>, <<42932, 42946, 2, 1>>, <<42948,
     42948, 1, -48>>, <<42949, 42949, 1, -42307>>, <<42950, 42950, 1,
     -35384>>, <<42951, 42953, 2, 1>>, <<42960, 42960, 1, 1>>, <<42966, 42968,
     2, 1>>, <<42997, 42997, 1, 1>>, <<65313, 65338, 1, 32>>, <<66560, 66599,
     1, 40>>, <<66736, 66771, 1, 40>>, <<66928, 66938, 1, 39>>, <<66940,
     66954, 1, 39>>, <<66956, 66962, 1, 39>>, <<66964, 66965, 1, 39>>,
     <<68736, 68786, 1, 64>>, <<71840, 71871, 1, 32>>, <<93760, 93791, 1,
     32>>, <<125184, 125217, 1, 34>>}
LowerTable ==
    [c \in UNION {{r[1] + k * r[3] : k \in 0..((r[2] - r[1]) \div r[3])} : r \in LowerRuns}
        |-> c + (CHOOSE r \in LowerRuns :
                    /\ r[1] <= c /\ c <= r[2]
                    /\ (c - r[1]) % r[3] = 0)[4]]
\* the characters that str.lower() skips when it looks for the cased letters
\* around a capital sigma (Case_Ignorable), and the cased characters that
\* are not among them
CaseIgnorable ==
    UNION {r[1]..r[2] : r \in
    {<<39, 39>>, <<46, 46>>, <<58, 58>>, <<94, 94>>, <<96, 96>>, <<168, 168>>,
     <<173, 173>>, <<175, 175>>, <<180, 180>>, <<183, 184>>, <<688, 879>>,
     <<884, 885>>, <<890, 890>>, <<900, 901>>, <<903, 903>>, <<1155, 1161>>,
     <<1369, 1369>>, <<1375, 1375>>, <<1425, 1469>>, <<1471, 1471>>, <<1473,
     1474>>, <<1476, 1477>>, <<1479, 1479>>, <<1524, 1524>>, <<1536, 1541>>,
     <<1552, 1562>>, <<1564, 1564>>, <<1600, 1600>>, <<1611, 1631>>, <<1648,
     1648>>, <<1750, 1757>>, <<1759, 1768>>, <<1770, 1773>>, <<1807, 1807>>,
     <<1809, 1809>>, <<1840, 1866>>, <<1958, 1968>>, <<2027, 2037>>, <<2042,
     2042>>, <<2045, 2045>>, <<2070, 2093>>, <<2137, 2139>>, <<2184, 2184>>,
     <<2192, 2193>>, <<2200, 2207>>, <<2249, 2306>>, <<2362, 2362>>, <<2364,
     2364>>, <<2369, 2376>>, <<2381, 2381>>, <<2385, 2391>>, <<2402, 2403>>,
     <<2417, 2417>>, <<2433, 2433>>, <<2492, 2492>>, <<2497, 2500>>, <<2509,
     2509>>, <<2530, 2531>>, <<2558, 2558>>, <<2561, 2562>>, <<2620, 2620>>,
     <<2625, 2626>>, <<2631, 2632>>, <<2635, 2637>>, <<2641, 2641>>, <<2672,
     2673>>, <<2677, 2677>>, <<2689, 2690>>, <<2748, 2748>>, <<2753, 2757>>,
     <<2759, 2760>>, <<2765, 2765>>, <<2786, 2787>>, <<2810, 2815>>, <<2817,
     2817>>, <<2876, 2876>>, <<2879, 2879>>, <<2881, 2884>>, <<2893, 2893>>,
     <<2901, 2902>>, <<2914, 2915>>, <<2946, 2946>>, <<3008, 3008>>, <<3021,
     3021>>, <<3072, 3072>>, <<3076, 3076>>, <<3132, 3132>>, <<3134, 3136>>,
     <<3142, 3144>>, <<3146, 3149>>, <<3157, 3158>>, <<3170, 3171>>, <<3201,
     3201>>, <<3260, 3260>>, <<3263, 3263>>, <<3270, 3270>>, <<3276, 3277>>,
     <<3298, 3299>>, <<3328, 3329>>, <<3387, 3388>>, <<3393, 3396>>, <<3405,
     3405>>, <<3426, 3427>>, <<3457, 3457>>, <<3530, 3530>>, <<3538, 3540>>,
     <<3542, 3542>>, <<3633, 3633>>, <<3636, 3642>>, <<3654, 3662>>, <<3761,
     3761>>, <<3764, 3772>>, <<3782, 3782>>, <<3784, 3789>>, <<3864, 3865>>,
     <<3893, 3893>>, <<3895, 3895>>, <<3897, 3897>>, <<3953, 3966>>, <<3968,
     3972>>, <<3974, 3975>>, <<3981, 3991>>, <<3993, 4028>>, <<4038, 4038>>,
     <<4141, 4144>>, <<4146, 4151>>, <<4153, 4154>>, <<4157, 4158>>, <<4184,
     4185>>, <<4190, 4192>>, <<4209, 4212>>, <<4226, 4226>>, <<4229, 4230>>,
     <<4237, 4237>>, <<4253, 4253>>, <<4348, 4348>>, <<4957, 4959>>, <<5906,
     5908>>, <<5938, 5939>>, <<5970, 5971>>, <<6002, 6003>>, <<6068, 6069>>,
     <<6071, 6077>>, <<6086, 6086>>, <<6089, 6099>>, <<6103, 6103>>, <<6109,
     6109>>, <<6155, 6159>>, <<6211, 6211>>, <<6277, 6278>>, <<6313, 6313>>,
     <<6432, 6434>>, <<6439, 6440>>, <<6450, 6450>>, <<6457, 6459>>, <<6679,
     6680>>, <<6683, 6683>>, <<6742, 6742>>, <<6744, 6750>>, <<6752, 6752>>,
     <<6754, 6754>>, <<6757, 6764>>, <<6771, 6780>>, <<6783, 6783>>, <<6823,
     6823>>, <<6832, 6862>>, <<6912, 6915>>, <<6964, 6964>>, <<6966, 6970>>,
     <<6972, 6972>>, <<6978, 6978>>, <<7019, 7027>>, <<7040, 7041>>, <<7074,
     7077>>, <<7080, 7081>>, <<7083, 7085>>, <<7142, 7142>>, <<7144, 7145>>,
     <<7149, 7149>>, <<7151, 7153>>, <<7212, 7219>>, <<7222, 7223>>, <<7288,
     7293>>, <<7376, 7378>>, <<7380, 7392>>, <<7394, 7400>>, <<7405, 7405>>,
     <<7412, 7412>>, <<7416, 7417>>, <<7468, 7530>>, <<7544, 7544>>, <<7579,
     7679>>, <<8125, 8125>>, <<8127, 8129>>, <<8141, 8143>>, <<8157, 8159>>,
     <<8173, 8175>>, <<8189, 8190>>, <<8203, 8207>>, <<8216, 8217>>, <<8228,
     8228>>, <<8231, 8231>>, <<8234, 8238>>, <<8288, 8292>>, <<8294, 8303>>,
     <<8305, 8305>>, <<8319, 8319>>, <<8336, 8348>>, <<8400, 8432>>, <<11388,
     11389>>, <<11503, 11505>>, <<11631, 11631>>, <<11647, 11647>>, <<11744,
     11775>>, <<11823, 11823>>, <<12293, 12293>>, <<12330, 12333>>, <<12337,
     12341>>, <<12347, 12347>>, <<12441, 12446>>, <<12540, 12542>>, <<40981,
     40981>>, <<42232, 42237>>, <<42508, 42508>>, <<42607, 42610>>, <<42612,
     42621>>, <<42623, 42623>>, <<42652, 42655>>, <<42736, 42737>>, <<42752,
     42785>>, <<42864, 42864>>, <<42888, 42890>>, <<42994, 42996>>, <<43000,
     43001>>, <<43010, 43010>>, <<43014, 43014>>, <<43019, 43019>>, <<43045,
     43046>>, <<43052, 43052>>, <<43204, 43205>>, <<43232, 43249>>, <<43263,
     43263>>, <<43302, 43309>>, <<43335, 43345>>, <<43392, 43394>>, <<43443,
     43443>>, <<43446, 43449>>, <<43452, 43453>>, <<43471, 43471>>, <<43493,
     43494>>, <<43561, 43566>>, <<43569, 43570>>, <<43573, 43574>>, <<43587,
     43587>>, <<43596, 43596>>, <<43632, 43632>>, <<43644, 43644>>, <<43696,
     43696>>, <<43698, 43700>>, <<43703, 43704>>, <<43710, 43711>>, <<43713,
     43713>>, <<43741, 43741>>, <<43756, 43757>>, <<43763, 43764>>, <<43766,
     43766>>, <<43867, 43871>>, <<43881, 43883>>, <<44005, 44005>>, <<44008,
     44008>>, <<44013, 44013>>, <<64286, 64286>>, <<64434, 64450>>, <<65024,
     65039>>, <<65043, 65043>>, <<65056, 65071>>, <<65106, 65106>>, <<65109,
     65109>>, <<65279, 65279>>, <<65287, 65287>>, <<65294, 65294>>, <<65306,
     65306>>, <<65342, 65342>>, <<65344, 65344>>, <<65392, 65392>>, <<65438,
     65439>>, <<65507, 65507>>, <<65529, 65531>>, <<66045, 66045>>, <<66272,
     66272>>, <<66422, 66426>>, <<67456, 67461>>, <<67463, 67504>>, <<67506,
     67514>>, <<68097, 68099>>, <<68101, 68102>>, <<68108, 68111>>, <<68152,
     68154>>, <<68159, 68159>>, <<68325, 68326>>, <<68900, 68903>>, <<69291,
     69292>>, <<69446, 69456>>, <<69506, 69509>>, <<69633, 69633>>, <<69688,
     69702>>, <<69744, 69744>>, <<69747, 69748>>, <<69759, 69761>>, <<69811,
     69814>>, <<69817, 69818>>, <<69821, 69821>>, <<69826, 69826>>, <<69837,
     69837>>, <<69888, 69890>>, <<69927, 69931>>, <<69933, 69940>>, <<70003,
     70003>>, <<70016, 70017>>, <<70070, 70078>>, <<70089, 70092>>, <<70095,
     70095>>, <<70191, 70193>>, <<70196, 70196>>, <<70198, 70199>>, <<70206,
     70206>>, <<70367, 70367>>, <<70371, 70378>>, <<70400, 70401>>, <<70459,
     70460>>, <<70464, 70464>>, <<70502, 70508>>, <<70512, 70516>>, <<70712,
     70719>>, <<70722, 70724>>, <<70726, 70726>>, <<70750, 70750>>, <<70835,
     70840>>, <<70842, 70842>>, <<70847, 70848>>, <<70850, 70851>>, <<71090,
     71093>>, <<71100, 71101>>, <<71103, 71104>>, <<71132, 71133>>, <<71219,
     71226>>, <<71229, 71229>>, <<71231, 71232>>, <<71339, 71339>>, <<71341,
     71341>>, <<71344, 71349>>, <<71351, 71351>>, <<71453, 71455>>, <<71458,
     71461>>, <<71463, 71467>>, <<71727, 71735>>, <<71737, 71738>>, <<71995,
     71996>>, <<71998, 71998>>, <<72003, 72003>>, <<72148, 72151>>, <<72154,
     72155>>, <<72160, 72160>>, <<72193, 72202>>, <<72243, 72248>>, <<72251,
     72254>>, <<72263, 72263>>, <<72273, 72278>>, <<72281, 72283>>, <<72330,
     72342>>, <<72344, 72345>>, <<72752, 72758>>, <<72760, 72765>>, <<72767,
     72767>>, <<72850, 72871>>, <<72874, 72880>>, <<72882, 72883>>, <<72885,
     72886>>, <<73009, 73014>>, <<73018, 73018>>, <<73020, 73021>>, <<73023,
     73029>>, <<73031, 73031>>, <<73104, 73105>>, <<73109, 73109>>, <<73111,
     73111>>, <<73459, 73460>>, <<78896, 78904>>, <<92912, 92916>>, <<92976,
     92982>>, <<92992, 92995>>, <<94031, 94031>>, <<94095, 94111>>, <<94176,
     94177>>, <<94179, 94180>>, <<110576, 110579>>, <<110581, 110587>>,
     <<110589, 110590>>, <<113821, 113822>>, <<113824, 113827>>, <<118528,
     118573>>, <<118576, 118598>>, <<119143, 119145>>, <<119155, 119170>>,
     <<119173, 119179>>, <<119210, 119213>>, <<119362, 119364>>, <<121344,
     121398>>, <<121403, 121452>>, <<121461, 121461>>, <<121476, 121476>>,
     <<121499, 121503>>, <<121505, 121519>>, <<122880, 122886>>, <<122888,
     122904>>, <<122907, 122913>>, <<122915, 122916>>, <<122918, 122922>>,
     <<123184, 123197>>, <<123566, 123566>>, <<123628, 123631>>, <<125136,
     125142>>, <<125252, 125259>>, <<127995, 127999>>, <<917505, 917505>>,
     <<917536, 917631>>, <<917760, 917999>>}}
Cased ==
    UNION {r[1]..r[2] : r \in
    {<<65, 90>>, <<97, 122>>, <<170, 170>>, <<181, 181>>, <<186, 186>>, <<192,
     214>>, <<216, 246>>, <<248, 442>>, <<444, 447>>, <<452, 659>>, <<661,
     687>>, <<880, 883>>, <<886, 887>>, <<891, 893>>, <<895, 895>>, <<902,
     902>>, <<904, 906>>, <<908, 908>>, <<910, 929>>, <<931, 1013>>, <<1015,
     1153>>, <<1162, 1327>>, <<1329, 1366>>, <<1376, 1416>>, <<4256, 4293>>,
     <<4295, 4295>>, <<4301, 4301>>, <<4304, 4346>>, <<4349, 4351>>, <<5024,
     5109>>, <<5112, 5117>>, <<7296, 7304>>, <<7312, 7354>>, <<7357, 7359>>,
     <<7424, 7467>>, <<7531, 7543>>, <<7545, 7578>>, <<7680, 7957>>, <<7960,
     7965>>, <<7968, 8005>>, <<8008, 8013>>, <<8016, 8023>>, <<8025, 8025>>,
     <<8027, 8027>>, <<8029, 8029>>, <<8031, 8061>>, <<8064, 8116>>, <<8118,
     8124>>, <<8126, 8126>>, <<8130, 8132>>, <<8134, 8140>>, <<8144, 8147>>,
     <<8150, 8155>>, <<8160, 8172>>, <<8178, 8180>>, <<8182, 8188>>, <<8450,
     8450>>, <<8455, 8455>>, <<8458, 8467>>, <<8469, 8469>>, <<8473, 8477>>,
     <<8484, 8484>>, <<8486, 8486>>, <<8488, 8488>>, <<8490, 8493>>, <<8495,
     8500>>, <<8505, 8505>>, <<8508, 8511>>, <<8517, 8521>>, <<8526, 8526>>,
     <<8544, 8575>>, <<8579, 8580>>, <<9398, 9449>>, <<11264, 11387>>,
     <<11390, 11492>>, <<11499, 11502>>, <<11506, 11507>>, <<11520, 11557>>,
     <<11559, 11559>>, <<11565, 11565>>, <<42560, 42605>>, <<42624, 42651>>,
     <<42786, 42863>>, <<42865, 42887>>, <<42891, 42894>>, <<42896, 42954>>,
     <<42960, 42961>>, <<42963, 42963>>, <<42965, 42969>>, <<42997, 42998>>,
     <<43002, 43002>>, <<43824, 43866>>, <<43872, 43880>>, <<43888, 43967>>,
     <<64256, 64262>>, <<64275, 64279>>, <<65313, 65338>>, <<65345, 65370>>,
     <<66560, 66639>>, <<66736, 66771>>, <<66776, 66811>>, <<66928, 66938>>,
     <<66940, 66954>>, <<66956, 66962>>, <<66964, 66965>>, <<66967, 66977>>,
     <<66979, 66993>>, <<66995, 67001>>, <<67003, 67004>>, <<68736, 68786>>,
     <<68800, 68850>>, <<71840, 71903>>, <<93760, 93823>>, <<119808, 119892>>,
     <<119894, 119964>>, <<119966, 119967>>, <<119970, 119970>>, <<119973,
     119974>>, <<119977, 119980>>, <<119982, 119993>>, <<119995, 119995>>,
     <<119997, 120003>>, <<120005, 120069>>, <<120071, 120074>>, <<120077,
     120084>>, <<120086, 120092>>, <<120094, 120121>>, <<120123, 120126>>,
     <<120128, 120132>>, <<120134, 120134>>, <<120138, 120144>>, <<120146,
     120485>>, <<120488, 120512>>, <<120514, 120538>>, <<120540, 120570>>,
     <<120572, 120596>>, <<120598, 120628>>, <<120630, 120654>>, <<120656,
     120686>>, <<120688, 120712>>, <<120714, 120744>>, <<120746, 120770>>,
     <<120772, 120779>>, <<122624, 122633>>, <<122635, 122654>>, <<125184,
     125251>>, <<127280, 127305>>, <<127312, 127337>>, <<127344, 127369>>}}

\* s[i:].startswith(p), 1-based
MatchAt(s, i, p) == /\ i >= 1
                    /\ i + Len(p) - 1 <= Len(s)
                    /\ SubSeq(s, i, i + Len(p) - 1) = p

\* p in s
In(p, s) == \E i \in 1..(Len(s) - Len(p) + 1) : MatchAt(s, i, p)

\* s.lower().  A capital sigma (931) that ends a word becomes the final
\* sigma (962): the nearest character before it that is not case-ignorable
\* is cased, and the nearest one after it, if any, is not.  A capital I with
\* dot above (304) becomes i and a combining dot above.
\* the sequences seqs[i], ..., seqs[j] put one after the other
RECURSIVE Concat(_, _, _)
Concat(seqs, i, j) ==
    IF i > j THEN <<>>
    ELSE IF i = j THEN seqs[i]
    ELSE Concat(seqs, i, (i + j) \div 2) \o Concat(seqs, (i + j) \div 2 + 1, j)
Lower(s) ==
    LET before(i) == {j \in 1..(i - 1) : s[j] \notin CaseIgnorable}
        after(i) == {j \in (i + 1)..Len(s) : s[j] \notin CaseIgnorable}
        last(js) == CHOOSE j \in js : \A k \in js : k <= j
        first(js) == CHOOSE j \in js : \A k \in js : j <= k
        final_sigma(i) ==
            /\ before(i) # {} /\ s[last(before(i))] \in Cased
            /\ after(i) = {} \/ s[first(after(i))] \notin Cased
        lower(i) ==
            IF s[i] = 304 THEN <<105, 775>>
            ELSE IF s[i] = 931 THEN IF final_sigma(i) THEN <<962>> ELSE <<963>>
            ELSE IF s[i] \in DOMAIN LowerTable THEN <<LowerTable[s[i]]>>
            ELSE <<s[i]>>
    IN Concat([i \in 1..Len(s) |-> lower(i)], 1, Len(s))

\* length of the longest run of characters of set cs starting at s[i]
Run(s, i, cs) ==
    IF i > Len(s) THEN 0
    ELSE IF \A k \in i..Len(s) : s[k] \in cs THEN Len(s) - i + 1
    ELSE (CHOOSE j \in i..Len(s) : s[j] \notin cs /\ \A k \in i..(j - 1) : s[k] \in cs) - i

\* length of the longest run of characters outside cs starting at s[i]
RunNot(s, i, cs) ==
    IF i > Len(s) THEN 0
    ELSE IF \A k \in i..Len(s) : s[k] \notin cs THEN Len(s) - i + 1
    ELSE (CHOOSE j \in i..Len(s) : s[j] \in cs /\ \A k \in i..(j - 1) : s[k] \notin cs) - i

\* s without the characters of cs at its ends
StripOf(s, cs) ==
    LET a == Run(s, 1, cs)
    IN IF a = Len(s) THEN <<>>
       ELSE LET b == CHOOSE j \in 1..Len(s) :
                        /\ Ch(s, j) \notin cs
                        /\ \A k \in (j + 1)..Len(s) : Ch(s, k) \in cs
            IN SubSeq(s, a + 1, b)

\* s.strip()
Strip(s) == StripOf(s, Space)

\* int(s) for a string s of decimal digits: ValueError when s has more than
\* 4300 of them (sys.int_info.default_max_str_digits), else the int
IntRaises(s) == Len(s) > 4300
IntOf(s) ==
    LET Value(d, z) == IF z = Len(d) THEN <<0>> ELSE SubSeq(d, z + 1, Len(d))
        Digits(d) == Value(d, Run(d, 1, {0}))
    IN [t |-> "int", v |-> Digits([i \in 1..Len(s) |-> DigitValue(s[i])])]

\* the number that the digits d[i..j] write in a base
RECURSIVE PlaceValue(_, _, _, _)
PlaceValue(base, d, i, j) ==
    IF i = j THEN d[i]
    ELSE PlaceValue(base, d, i, (i + j) \div 2) * base^(j - (i + j) \div 2)
             + PlaceValue(base, d, (i + j) \div 2 + 1, j)

\* The binary64 nearest to digits * 10^k, ties to even, under f.  digits are
\* the values 0..9 of a decimal numeral.  The number is cut at its point into
\* the digits w before and f after it; halving w gives the bits before the
\* point (ib), lowest first, and doubling f the bits after it (fb); lead is
\* the place of the first 1 in fb.  53 bits from the first 1 on, or the bits
\* down to 2^-1074 of a number below 2^-1022, are kept, and the bit after
\* them (round) and whether anything follows it (sticky) tell the way to
\* round.  A number of 10^309 or more lies beyond the largest float, one below
\* 10^-324 rounds to 0, and a number below 10^9 without fraction digits is
\* written in binary at once.  dir tells where the number lies: 1 above the
\* float, -1 below it, 0 on it.
Binary64(negative, digits, k) ==
    LET sign == IF negative THEN 1 ELSE 0
        Zero(f) == \A i \in 1..Len(f) : f[i] = 0
        Halve(w) ==
            LET h == [i \in 1..Len(w) |->
                         ((IF i > 1 THEN 10 * (w[i - 1] % 2) ELSE 0) + w[i]) \div 2]
            IN IF h[1] = 0 THEN Tail(h) ELSE h
        Twice(f) ==
            [i \in 1..Len(f) |->
                (2 * f[i] + (IF i < Len(f) /\ f[i + 1] >= 5 THEN 1 ELSE 0)) % 10]
        Step(x) ==
            IF x.w # <<>>
            THEN [x EXCEPT !.w = Halve(x.w), !.ib = <<x.w[Len(x.w)] % 2>> \o x.ib]
            ELSE [x EXCEPT !.f = Twice(x.f),
                           !.fb = Append(x.fb, IF x.f[1] >= 5 THEN 1 ELSE 0),
                           !.lead = IF x.lead = 0 /\ x.f[1] >= 5
                                    THEN Len(x.fb) + 1 ELSE x.lead]
        Done(x) ==
            /\ x.w = <<>>
            /\ \/ Zero(x.f)
               \/ IF Len(x.ib) > 0 THEN Len(x.ib) + Len(x.fb) >= 54
                  ELSE \/ x.lead > 0 /\ Len(x.fb) >= x.lead + 53
                       \/ Len(x.fb) >= 1075
        \* n steps, or as many as it takes to be done
        RECURSIVE Steps(_, _)
        Steps(x, n) ==
            IF n = 0 \/ Done(x) THEN x
            ELSE IF n = 1 THEN Step(x)
            ELSE Steps(Steps(x, n \div 2), n - n \div 2)
        Fields(exp, hi, lo, dir) ==
            [f |-> [sign |-> sign, exp |-> exp, hi |-> hi, lo |-> lo], dir |-> dir]
        Carried(exp, hi, lo) ==
            IF lo + 1 < 2^26 THEN Fields(exp, hi, lo + 1, -1)
            ELSE IF hi + 1 < 2^26 THEN Fields(exp, hi + 1, 0, -1)
            ELSE Fields(exp + 1, 0, 0, -1)
        Packed(exp, frac, round, sticky) ==
            IF round = 1 /\ (sticky \/ frac[52] = 1)
            THEN Carried(exp, PlaceValue(2, frac, 1, 26), PlaceValue(2, frac, 27, 52))
            ELSE Fields(exp, PlaceValue(2, frac, 1, 26), PlaceValue(2, frac, 27, 52),
                        IF round = 1 \/ sticky THEN 1 ELSE 0)
        \* the fraction is the 52 bits of b from b[a] on
        Cut(b, a, exp, rest) ==
            Packed(exp, [i \in 1..52 |-> IF a + i - 1 <= Len(b) THEN b[a + i - 1] ELSE 0],
                   IF a + 52 <= Len(b) THEN b[a + 52] ELSE 0,
                   rest \/ \E i \in (a + 53)..Len(b) : b[i] = 1)
        Rounded(x) ==
            IF Len(x.ib) > 1024 THEN Fields(2047, 0, 0, -1)
            ELSE IF Len(x.ib) > 0 THEN Cut(x.ib \o x.fb, 2, Len(x.ib) + 1022, ~Zero(x.f))
            ELSE IF x.lead = 0 THEN Fields(0, 0, 0, 1)
            ELSE IF x.lead <= 1022 THEN Cut(x.fb, x.lead + 1, 1023 - x.lead, ~Zero(x.f))
            ELSE Cut(x.fb, 1023, 0, ~Zero(x.f))
        \* a number v in 1..10^9: b is the place of its first bit
        Binary(v, b) ==
            IF b <= 26 THEN Fields(1023 + b, (v - 2^b) * 2^(26 - b), 0, 0)
            ELSE Fields(1023 + b, (v - 2^b) \div 2^(b - 26),
                        ((v - 2^b) % 2^(b - 26)) * 2^(52 - b), 0)
        Small(v) == Binary(v, CHOOSE b \in 0..29 : 2^b <= v /\ v < 2 * 2^b)
        Placed(d, n) ==
            IF n = 0 THEN Fields(0, 0, 0, 0)
            ELSE IF n + k > 309 THEN Fields(2047, 0, 0, -1)
            ELSE IF n + k < -323 THEN Fields(0, 0, 0, 1)
            ELSE IF k = 0 /\ n <= 9 THEN Small(PlaceValue(10, d, 1, n))
            ELSE Rounded(Steps(
                     [w |-> IF k >= 0 THEN d \o [i \in 1..k |-> 0]
                            ELSE SubSeq(d, 1, n + k),
                      f |-> IF k >= 0 THEN <<>>
                            ELSE IF n + k >= 0 THEN SubSeq(d, n + k + 1, n)
                            ELSE [i \in 1..(-k - n) |-> 0] \o d,
                      ib |-> <<>>, fb |-> <<>>, lead |-> 0],
                     4 * (n + (IF k > 0 THEN k ELSE 0)) + 1076))
        Stripped(z) == Placed(SubSeq(digits, z + 1, Len(digits)), Len(digits) - z)
    IN Stripped(Run(digits, 1, {0}))

\* x < y, x > y and x >= y on numbers, each false when either is nan.  An
\* int is compared with a float as the number it is.
IsNaN(x) == x.t = "float" /\ x.v.exp = 2047 /\ (x.v.hi # 0 \/ x.v.lo # 0)
NumLT(x, y) ==
    LET Below(a, b) ==
            \/ a.exp < b.exp
            \/ a.exp = b.exp /\ (a.hi < b.hi \/ (a.hi = b.hi /\ a.lo < b.lo))
        IsZero(a) == a.exp = 0 /\ a.hi = 0 /\ a.lo = 0
        Less(a, b) ==
            IF IsZero(a) /\ IsZero(b) THEN FALSE
            ELSE IF a.sign # b.sign THEN a.sign = 1
            ELSE IF a.sign = 0 THEN Below(a, b) ELSE Below(b, a)
        Near(z) == IF z.t = "float" THEN [f |-> z.v, dir |-> 0]
                   ELSE Binary64(FALSE, z.v, 0)
        Mixed(a, b) == Less(a.f, b.f) \/ (~Less(b.f, a.f) /\ a.dir < b.dir)
        Ints(a, b) ==
            \/ Len(a) < Len(b)
            \/ /\ Len(a) = Len(b)
               /\ \E i \in 1..Len(a) : a[i] < b[i] /\ \A j \in 1..(i - 1) : a[j] = b[j]
    IN /\ ~IsNaN(x) /\ ~IsNaN(y)
       /\ IF x.t = "int" /\ y.t = "int" THEN Ints(x.v, y.v) ELSE Mixed(Near(x), Near(y))
NumGT(x, y) == NumLT(y, x)
NumGE(x, y) == ~IsNaN(x) /\ ~IsNaN(y) /\ ~NumLT(x, y)

\* where a character of cs is first found in s, 0 when it is not
FirstOf(s, cs) ==
    LET hits == {i \in 1..Len(s) : s[i] \in cs}
    IN IF hits = {} THEN 0 ELSE CHOOSE i \in hits : \A j \in hits : i <= j

\* float(s) for s matching [\d.]+ : whether it raises ValueError, and its value
FloatRaises(s) ==
    \/ Cardinality({i \in 1..Len(s) : Ch(s, i) = 46}) > 1
    \/ \A i \in 1..Len(s) : Ch(s, i) = 46
FloatOf(s) ==
    LET Value(d, p) ==
            Binary64(FALSE, [i \in 1..Len(d) |-> DigitValue(d[i])],
                     IF p = 0 THEN 0 ELSE p - 1 - Len(d))
        Parts(p) == Value(SelectSeq(s, LAMBDA c : c # 46), p)
    IN [t |-> "float", v |-> Parts(FirstOf(s, {46})).f]

\* float(s) for any string s, as argparse applies it to --min-progress:
\* surrounding whitespace is dropped (the characters of str.isspace() but
\* \x1c-\x1f, which float() does not take for whitespace), then a sign, then
\* inf, infinity or nan in either case of the ASCII letters, or a decimal
\* number: decimal digits of any script with an optional point (digits on at
\* least one side of it), an optional exponent, and single underscores
\* between digits.  The value is the float nearest to the number.
IsDigitPart(s) ==
    /\ Len(s) > 0
    /\ \A i \in 1..Len(s) : Ch(s, i) \in Digit \cup {95}
    /\ Ch(s, 1) # 95 /\ Ch(s, Len(s)) # 95
    /\ ~In(<<95, 95>>, s)
\* s without its underscores
DigitsOf(s) == SelectSeq(s, LAMBDA c : c # 95)
\* the text of a float cut into its parts: the sign, the text after it with
\* the letters A-Z in lower case, the digits before and after the point,
\* whether there is an exponent and its sign and digits; decimal tells
\* whether the text after the sign is a decimal number
FloatText(s) ==
    LET Sign(x) == IF Len(x) > 0 /\ Ch(x, 1) = 45 THEN -1 ELSE 1
        Unsigned(x) == IF Len(x) > 0 /\ Ch(x, 1) \in {43, 45} THEN Tail(x) ELSE x
        Before(x, i) == IF i = 0 THEN x ELSE SubSeq(x, 1, i - 1)
        After(x, i) == IF i = 0 THEN <<>> ELSE SubSeq(x, i + 1, Len(x))
        Number(sign, u, whole, fraction, has_point, has_exponent, exponent) ==
            [sign |-> sign,
             word |-> [i \in 1..Len(u) |-> IF u[i] \in 65..90 THEN u[i] + 32 ELSE u[i]],
             whole |-> whole, fraction |-> fraction,
             has_exponent |-> has_exponent, exponent_sign |-> Sign(exponent),
             exponent |-> Unsigned(exponent),
             decimal |->
                 /\ IF has_point
                    THEN /\ whole = <<>> \/ IsDigitPart(whole)
                         /\ fraction = <<>> \/ IsDigitPart(fraction)
                         /\ whole # <<>> \/ fraction # <<>>
                    ELSE IsDigitPart(whole)
                 /\ has_exponent => IsDigitPart(Unsigned(exponent))]
        Split(sign, u, mantissa, exponent, e, point) ==
            Number(sign, u, Before(mantissa, point), After(mantissa, point),
                   point # 0, e # 0, exponent)
        Cut(sign, u, mantissa, exponent, e) ==
            Split(sign, u, mantissa, exponent, e, FirstOf(mantissa, {46}))
        Marked(sign, u, e) == Cut(sign, u, Before(u, e), After(u, e), e)
        Text(t) == Marked(Sign(t), Unsigned(t), FirstOf(Unsigned(t), {101, 69}))
    IN Text(StripOf(s, Space \ 28..31))
\* whether float(s) returns; it raises ValueError when it does not
IsFloatText(s) ==
    LET Returns(p) == p.word \in {S("inf"), S("infinity"), S("nan")} \/ p.decimal
    IN Returns(FloatText(s))
Float(s) ==
    LET Values(t) == [i \in 1..Len(t) |-> DigitValue(t[i])]
        \* the exponent, or 10000000 in place of a larger one: the float is
        \* the same for every text shorter than that
        Capped(e) == IF Len(e) > 7 THEN 10000000
                     ELSE PlaceValue(10, <<0>> \o e, 1, Len(e) + 1)
        Power(e) == Capped(SubSeq(e, Run(e, 1, {0}) + 1, Len(e)))
        Value(p) ==
            IF p.word = S("nan") THEN PyFloat(IF p.sign < 0 THEN 1 ELSE 0, 2047, 2^25, 0)
            ELSE IF p.word \in {S("inf"), S("infinity")}
                 THEN PyFloat(IF p.sign < 0 THEN 1 ELSE 0, 2047, 0, 0)
            ELSE [t |-> "float",
                  v |-> Binary64(p.sign < 0,
                                 Values(DigitsOf(p.whole) \o DigitsOf(p.fraction)),
                                 (IF p.has_exponent
                                  THEN p.exponent_sign * Power(Values(DigitsOf(p.exponent)))
                                  ELSE 0) - Len(DigitsOf(p.fraction))).f]
    IN Value(FloatText(s))

\* urllib.parse.unquote(s): every %XX with two hex digits stands for a byte,
\* and the bytes are decoded as UTF-8 with errors='replace'. ByteUnits(s) is
\* the text cut into its units: an escape with its byte, or one character
\* that stands for itself (byte -1; a character below 128 is its own UTF-8
\* encoding and never continues a sequence, and one above ends the run of
\* ASCII text that is decoded).  An escape starts at every % that two hex
\* digits follow, and the two digits are no units of their own.
\* bytes.decode('utf-8', 'replace') over the units: a complete sequence is its
\* character, and the longest prefix of an incomplete one is one U+FFFD
\* (65533). n is the length of the UTF-8 sequence that the lead byte b starts
\* (0: not a lead byte), second the range of its second byte, used the units
\* the sequence that starts at unit k takes.  Only a continuation byte
\* (128..191) is ever taken by the sequence of a byte before it.
Unquote(s) ==
    LET ByteUnits ==
            LET IsHex(c) == c \in 48..57 \cup 65..70 \cup 97..102
                HexVal(c) == IF c <= 57 THEN c - 48 ELSE IF c <= 70 THEN c - 55 ELSE c - 87
                Escape(i) == /\ i >= 1 /\ i + 2 <= Len(s)
                             /\ s[i] = 37 /\ IsHex(s[i + 1]) /\ IsHex(s[i + 2])
                Unit(i) ==
                    IF Escape(i)
                    THEN <<[byte |-> 16 * HexVal(s[i + 1]) + HexVal(s[i + 2]),
                            text |-> SubSeq(s, i, i + 2)]>>
                    ELSE IF Escape(i - 1) \/ Escape(i - 2) THEN <<>>
                    ELSE <<[byte |-> -1, text |-> <<s[i]>>]>>
            IN Concat([i \in 1..Len(s) |-> Unit(i)], 1, Len(s))
        DecodeUnits(units) ==
            LET n(b) == IF b \in 194..223 THEN 2
                        ELSE IF b \in 224..239 THEN 3
                        ELSE IF b \in 240..244 THEN 4 ELSE 0
                second(b) == IF b = 224 THEN 160..191
                             ELSE IF b = 237 THEN 128..159
                             ELSE IF b = 240 THEN 144..191
                             ELSE IF b = 244 THEN 128..143 ELSE 128..191
                at(k, range) == Len(units) >= k /\ units[k].byte \in range
                two(k) == at(k + 1, second(units[k].byte))
                three(k) == two(k) /\ at(k + 2, 128..191)
                four(k) == three(k) /\ at(k + 3, 128..191)
                code(k, b) ==
                    IF n(b) = 2 THEN (b - 192) * 64 + (units[k + 1].byte - 128)
                    ELSE IF n(b) = 3
                         THEN (b - 224) * 4096 + (units[k + 1].byte - 128) * 64
                                  + (units[k + 2].byte - 128)
                         ELSE (b - 240) * 262144 + (units[k + 1].byte - 128) * 4096
                                  + (units[k + 2].byte - 128) * 64 + (units[k + 3].byte - 128)
                used(k, b) == IF n(b) = 0 \/ ~two(k) THEN 1
                              ELSE IF n(b) = 2 \/ ~three(k) THEN 2
                              ELSE IF n(b) = 3 \/ ~four(k) THEN 3 ELSE 4
                continues(k) == units[k].byte \in 128..191
                taken(k) == /\ continues(k)
                            /\ \E d \in 1..3 :
                                   /\ k - d >= 1 /\ ~continues(k - d)
                                   /\ \A e \in 1..(d - 1) : continues(k - e)
                                   /\ d < used(k - d, units[k - d].byte)
                decoded(k, b) ==
                    IF taken(k) THEN <<>>
                    ELSE IF b < 0 THEN units[k].text
                    ELSE IF b < 128 THEN <<b>>
                    ELSE IF used(k, b) < n(b) \/ n(b) = 0 THEN <<65533>>
                    ELSE <<code(k, b)>>
            IN Concat([k \in 1..Len(units) |-> decoded(k, units[k].byte)], 1, Len(units))
    IN DecodeUnits(ByteUnits)

-----------------------------------------------------------------------------
(* re.search for the six patterns of the scanner.  Each returns the leftmost *)
(* match: matched, and the groups the code reads.                            *)

NoMatch == [matched |-> FALSE, g1 |-> <<>>, g2 |-> <<>>, g3 |-> <<>>]
\* where a character of cs stands in s: a match starts where the first
\* character of its pattern stands
Places(s, cs) == {i \in 1..Len(s) : s[i] \in cs}
Leftmost(hits) == CHOOSE i \in hits : \A j \in hits : i <= j

\* r'#/detail/(movie|series)/(tt\d+)'
ImdbSearch(s) ==
    LET KindAt(k) == IF MatchAt(s, k + 9, S("movie")) THEN S("movie")
                     ELSE IF MatchAt(s, k + 9, S("series")) THEN S("series")
                     ELSE <<>>
        At(k) == /\ MatchAt(s, k, S("#/detail/"))
                 /\ KindAt(k) # <<>>
                 /\ MatchAt(s, k + 9 + Len(KindAt(k)), S("/tt"))
                 /\ Run(s, k + 12 + Len(KindAt(k)), Digit) >= 1
        hits == {k \in Places(s, {35}) : At(k)}
    IN IF hits = {} THEN NoMatch
       ELSE LET i == Leftmost(hits)
                j == i + 10 + Len(KindAt(i))
            IN [matched |-> TRUE, g1 |-> KindAt(i),
                g2 |-> SubSeq(s, j, j + 1 + Run(s, j + 2, Digit)), g3 |-> <<>>]

\* r'(tt\d+):(\d+):(\d+)'
EpisodeSearch(s) ==
    LET At(k) ==
            LET m1 == Run(s, k + 2, Digit)
                m2 == Run(s, k + 3 + m1, Digit)
                m3 == Run(s, k + 4 + m1 + m2, Digit)
            IN /\ MatchAt(s, k, S("tt"))
               /\ m1 >= 1
               /\ MatchAt(s, k + 2 + m1, S(":"))
               /\ m2 >= 1
               /\ MatchAt(s, k + 3 + m1 + m2, S(":"))
               /\ m3 >= 1
        hits == {k \in Places(s, {116}) : At(k)}
    IN IF hits = {} THEN NoMatch
       ELSE LET i == Leftmost(hits)
                n1 == Run(s, i + 2, Digit)
                n2 == Run(s, i + 3 + n1, Digit)
                n3 == Run(s, i + 4 + n1 + n2, Digit)
            IN [matched |-> TRUE, g1 |-> SubSeq(s, i, i + 1 + n1),
                g2 |-> SubSeq(s, i + 3 + n1, i + 2 + n1 + n2),
                g3 |-> SubSeq(s, i + 4 + n1 + n2, i + 3 + n1 + n2 + n3)]

\* r'width:\s*([\d.]+)%'
WidthSearch(s) ==
    LET At(k) ==
            LET v == Run(s, k + 6, Space)
                m == Run(s, k + 6 + v, Digit \cup {46})
            IN /\ MatchAt(s, k, S("width:"))
               /\ m >= 1
               /\ MatchAt(s, k + 6 + v + m, S("%"))
        hits == {k \in Places(s, {119}) : At(k)}
    IN IF hits = {} THEN NoMatch
       ELSE LET i == Leftmost(hits)
                w == Run(s, i + 6, Space)
                n == Run(s, i + 6 + w, Digit \cup {46})
            IN [matched |-> TRUE, g1 |-> SubSeq(s, i + 6 + w, i + 5 + w + n),
                g2 |-> <<>>, g3 |-> <<>>]

\* r'background-image:\s*url\(["\']?([^"\')\s]+)["\']?\)'
\* Quote: the two quotation marks " and '
UrlSearch(s) ==
    LET Quote == {34, 39}
        Start(k) ==
            LET v == Run(s, k + 17, Space)
                p == IF k + 21 + v <= Len(s) /\ Ch(s, k + 21 + v) \in Quote THEN 1 ELSE 0
            IN k + 21 + v + p
        At(k) ==
            LET w == Run(s, k + 17, Space)
                b == Start(k)
                n == RunNot(s, b, Quote \cup {41} \cup Space)
                q == IF b + n <= Len(s) /\ Ch(s, b + n) \in Quote THEN 1 ELSE 0
            IN /\ MatchAt(s, k, S("background-image:"))
               /\ MatchAt(s, k + 17 + w, S("url("))
               /\ n >= 1
               /\ MatchAt(s, b + n + q, S(")"))
        hits == {k \in Places(s, {98}) : At(k)}
    IN IF hits = {} THEN NoMatch
       ELSE LET j == Start(Leftmost(hits))
            IN [matched |-> TRUE,
                g1 |-> SubSeq(s, j, j + RunNot(s, j, Quote \cup {41} \cup Space) - 1),
                g2 |-> <<>>, g3 |-> <<>>]

\* r'poster-shape-(\w+)'
ShapeSearch(s) ==
    LET hits == {i \in Places(s, {112}) :
                    MatchAt(s, i, S("poster-shape-")) /\ Run(s, i + 13, Word) >= 1}
    IN IF hits = {} THEN NoMatch
       ELSE LET i == Leftmost(hits)
            IN [matched |-> TRUE, g1 |-> SubSeq(s, i + 13, i + 12 + Run(s, i + 13, Word)),
                g2 |-> <<>>, g3 |-> <<>>]

\* r'\b(19|20)\d{2}\b' ; g1 is group(0)
YearSearch(s) ==
    LET At(k) ==
            /\ MatchAt(s, k, S("19")) \/ MatchAt(s, k, S("20"))
            /\ Run(s, k + 2, Digit) >= 2
            /\ k = 1 \/ Ch(s, k - 1) \notin Word
            /\ k + 4 > Len(s) \/ Ch(s, k + 4) \notin Word
        hits == {k \in Places(s, {49, 50}) : At(k)}
    IN IF hits = {} THEN NoMatch
       ELSE [matched |-> TRUE, g1 |-> SubSeq(s, Leftmost(hits), Leftmost(hits) + 3),
             g2 |-> <<>>, g3 |-> <<>>]

-----------------------------------------------------------------------------
(* StremioHTMLParser.  A parser is the record of its attributes, plus err,   *)
(* the exception raised by a handler (the feed stops there).  Each handler   *)
(* is the composition of its statements in source order; a statement is      *)
(* skipped once an exception is pending.                                     *)

\* StremioHTMLParser.__init__
NewParser == [items |-> <<>>, current_item |-> None, in_meta_item |-> FALSE,
              in_title_label |-> FALSE, capture_text |-> FALSE,
              current_text_field |-> None, err |-> "none"]

Raise(p, e) == [p EXCEPT !.err = e]
Open(p) == Truthy(p.current_item)
SetField(p, k, x) == [p EXCEPT !.current_item = PyDict(SetItem(@.v, k, x))]
Field(p, k) == p.current_item.v[k]
TextTags == {"div", "span", "p"}
Arm(p, field) == [p EXCEPT !.capture_text = TRUE, !.current_text_field = PyStr(S(field))]

\* lines 80-82: int() of groups 2 and 3 of episode_match, one statement after
\* the other
EpisodeFields(p, em) ==
    IF ~em.matched THEN p
    ELSE IF IntRaises(em.g2) THEN Raise(p, "ValueError")
    ELSE IF IntRaises(em.g3)
         THEN Raise(SetField(p, "season", IntOf(em.g2)), "ValueError")
    ELSE SetField(SetField(p, "season", IntOf(em.g2)), "episode", IntOf(em.g3))

\* lines 63-78: the dict literal assigned to current_item
NewItem(m, href, title) ==
    [imdb_id |-> PyStr(m.g2),
     title |-> title,
     type |-> PyStr(IF m.g1 = S("series") THEN S("show") ELSE S("movie")),
     href |-> href,
     is_watched |-> PyBool(FALSE),
     progress |-> PyInt(0),
     season |-> None,
     episode |-> None,
     poster_url |-> None,
     poster_shape |-> None,
     year |-> None,
     duration |-> None,
     episode_title |-> None,
     release_info |-> None]

\* lines 44-87: meta item containers
StartRoot(p, tag, attrs) ==
    IF p.err # "none" \/ ~(tag = "a" /\ "class" \in DOMAIN attrs) THEN p
    ELSE LET classes == Get(attrs, "class", PyStr(<<>>))
             href == Get(attrs, "href", PyStr(<<>>))
             title == Get(attrs, "title", PyStr(<<>>))
             p1 == [p EXCEPT !.in_meta_item = TRUE]
             imdb_match == ImdbSearch(href.v)
             \* lines 84-87: the keys of attrs_dict that start with 'data-'
             data_keys == {k \in DOMAIN attrs : MatchAt(k, 1, "data-")}
             Stored(q) ==
                 IF q.err # "none" THEN q
                 ELSE [q EXCEPT !.current_item =
                           PyDict([k \in DOMAIN @.v \cup data_keys |->
                                      IF k \in data_keys THEN attrs[k] ELSE @.v[k]])]
             Created(q) == Stored(EpisodeFields(q, EpisodeSearch(href.v)))
         IN IF IsNone(classes) THEN Raise(p, "TypeError")
            ELSE IF ~In(S("meta-item-container"), classes.v) THEN p
            ELSE IF IsNone(href) THEN Raise(p1, "TypeError")
            ELSE IF ~imdb_match.matched THEN p1
            ELSE Created([p1 EXCEPT !.current_item =
                              PyDict(NewItem(imdb_match, href, title))])

\* lines 89-92: watched icon
StartWatched(p, tag, attrs) ==
    IF p.err # "none" \/ ~(Open(p) /\ tag = "div" /\ "class" \in DOMAIN attrs) THEN p
    ELSE LET classes == Get(attrs, "class", PyStr(<<>>))
         IN IF IsNone(classes) THEN Raise(p, "TypeError")
            ELSE IF In(S("watched-icon-layer"), classes.v)
                 THEN SetField(p, "is_watched", PyBool(TRUE))
                 ELSE p

\* lines 94-101: progress bar
StartProgress(p, tag, attrs) ==
    IF p.err # "none" \/ ~(Open(p) /\ tag = "div" /\ "class" \in DOMAIN attrs) THEN p
    ELSE LET classes == Get(attrs, "class", PyStr(<<>>))
             style == Get(attrs, "style", PyStr(<<>>))
             progress_match == WidthSearch(style.v)
         IN IF IsNone(classes) THEN Raise(p, "TypeError")
            ELSE IF ~(\/ In(S("progress-bar"), classes.v)
                      \/ In(S("progressBar"), Lower(classes.v))) THEN p
            ELSE IF IsNone(style) THEN Raise(p, "TypeError")
            ELSE IF ~progress_match.matched THEN p
            ELSE IF FloatRaises(progress_match.g1) THEN Raise(p, "ValueError")
            ELSE SetField(p, "progress", FloatOf(progress_match.g1))

\* lines 103-116: poster from background-image, and (lines 112-116) the
\* poster shape
StartPoster(p, tag, attrs) ==
    IF p.err # "none" \/ ~(Open(p) /\ tag = "div" /\ "class" \in DOMAIN attrs) THEN p
    ELSE LET classes == Get(attrs, "class", PyStr(<<>>))
             style == Get(attrs, "style", PyStr(<<>>))
             url_match == UrlSearch(style.v)
             PosterShape(q, c) ==
                 LET shape_match == ShapeSearch(c)
                 IN IF In(S("poster-shape"), c) /\ shape_match.matched
                    THEN SetField(q, "poster_shape", PyStr(shape_match.g1))
                    ELSE q
         IN IF IsNone(classes) THEN Raise(p, "AttributeError")
            ELSE IF ~(\/ In(S("poster"), Lower(classes.v))
                      \/ In(S("thumbnail"), Lower(classes.v))
                      \/ In(S("image"), Lower(classes.v))) THEN p
            ELSE IF IsNone(style) THEN Raise(p, "TypeError")
            ELSE PosterShape(IF url_match.matched
                             THEN SetField(p, "poster_url", PyStr(Unquote(url_match.g1)))
                             ELSE p,
                             classes.v)

\* variant of StartImg: the alt text replaces a title that is already set
StartImgAltOverwrites(p, tag, attrs) ==
    IF p.err # "none" \/ ~(Open(p) /\ tag = "img") THEN p
    ELSE LET src == Get(attrs, "src", PyStr(<<>>))
             alt == Get(attrs, "alt", PyStr(<<>>))
             p1 == IF Truthy(src) /\ ~Truthy(Field(p, "poster_url"))
                   THEN SetField(p, "poster_url", PyStr(Unquote(src.v)))
                   ELSE p
         IN IF Truthy(alt) THEN SetField(p1, "title", alt) ELSE p1

\* lines 118-125: poster and title from img
StartImg(p, tag, attrs) ==
    IF p.err # "none" \/ ~(Open(p) /\ tag = "img") THEN p
    ELSE LET src == Get(attrs, "src", PyStr(<<>>))
             alt == Get(attrs, "alt", PyStr(<<>>))
             p1 == IF Truthy(src) /\ ~Truthy(Field(p, "poster_url"))
                   THEN SetField(p, "poster_url", PyStr(Unquote(src.v)))
                   ELSE p
         IN IF Truthy(alt) /\ ~Truthy(Field(p1, "title"))
            THEN SetField(p1, "title", alt)
            ELSE p1

\* the guard shared by lines 128, 135, 142 and 149, and classes.lower()
TextGuard(p, tag, attrs) ==
    p.err = "none" /\ Open(p) /\ tag \in TextTags /\ "class" \in DOMAIN attrs

\* lines 127-132: title/name labels
StartTitleLabel(p, tag, attrs) ==
    IF ~TextGuard(p, tag, attrs) THEN p
    ELSE IF IsNone(attrs["class"]) THEN Raise(p, "AttributeError")
    ELSE LET c == Lower(attrs["class"].v)
         IN IF In(S("title"), c) \/ In(S("name"), c) \/ In(S("label"), c)
            THEN Arm(p, "title_text") ELSE p

\* lines 134-139: year/release info
StartRelease(p, tag, attrs) ==
    IF ~TextGuard(p, tag, attrs) THEN p
    ELSE IF IsNone(attrs["class"]) THEN Raise(p, "AttributeError")
    ELSE LET c == Lower(attrs["class"].v)
         IN IF In(S("year"), c) \/ In(S("release"), c) \/ In(S("date"), c)
            THEN Arm(p, "release_info") ELSE p

\* lines 141-146: duration info
StartDuration(p, tag, attrs) ==
    IF ~TextGuard(p, tag, attrs) THEN p
    ELSE IF IsNone(attrs["class"]) THEN Raise(p, "AttributeError")
    ELSE LET c == Lower(attrs["class"].v)
         IN IF In(S("duration"), c) \/ In(S("runtime"), c) \/ In(S("time"), c)
            THEN Arm(p, "duration") ELSE p

\* variant of StartEpisodeTitle: a target that is already armed is kept
StartEpisodeTitleKeepsTarget(p, tag, attrs) ==
    IF ~TextGuard(p, tag, attrs) THEN p
    ELSE IF IsNone(attrs["class"]) THEN Raise(p, "AttributeError")
    ELSE LET c == Lower(attrs["class"].v)
         IN IF In(S("episode"), c) /\ In(S("title"), c) /\ ~p.capture_text
            THEN Arm(p, "episode_title") ELSE p

\* lines 148-153: episode title
StartEpisodeTitle(p, tag, attrs) ==
    IF ~TextGuard(p, tag, attrs) THEN p
    ELSE IF IsNone(attrs["class"]) THEN Raise(p, "AttributeError")
    ELSE LET c == Lower(attrs["class"].v)
         IN IF In(S("episode"), c) /\ In(S("title"), c)
            THEN Arm(p, "episode_title") ELSE p

\* lines 155-162: background image from any inline style
StartInlineStyle(p, tag, attrs) ==
    IF p.err # "none" \/ ~(Open(p) /\ "style" \in DOMAIN attrs) THEN p
    ELSE LET style == attrs["style"]
             url_match == UrlSearch(style.v)
         IN IF IsNone(style) THEN Raise(p, "TypeError")
            ELSE IF /\ In(S("background-image"), style.v)
                    /\ ~Truthy(Field(p, "poster_url"))
                    /\ url_match.matched
                 THEN SetField(p, "poster_url", PyStr(Unquote(url_match.g1)))
                 ELSE p

\* StremioHTMLParser.handle_starttag
handle_starttag(p, tag, attrs) ==
    StartInlineStyle(
     StartEpisodeTitle(
      StartDuration(
       StartRelease(
        StartTitleLabel(
         StartImg(
          StartPoster(
           StartProgress(
            StartWatched(
             StartRoot(p, tag, attrs),
             tag, attrs), tag, attrs), tag, attrs), tag, attrs), tag, attrs),
        tag, attrs), tag, attrs), tag, attrs), tag, attrs)

\* StremioHTMLParser.handle_data
handle_data(p, data) ==
    IF ~(Open(p) /\ p.capture_text /\ Len(Strip(data)) > 0) THEN p
    ELSE LET text == Strip(data)
             field == p.current_text_field
         IN IF IsNone(field) THEN p
            ELSE IF field.v = S("release_info")
                 THEN LET p1 == SetField(p, "release_info", PyStr(text))
                      IN IF YearSearch(text).matched
                         THEN SetField(p1, "year", IntOf(YearSearch(text).g1))
                         ELSE p1
            ELSE IF field.v = S("duration") THEN SetField(p, "duration", PyStr(text))
            ELSE IF field.v = S("episode_title")
                 THEN SetField(p, "episode_title", PyStr(text))
            ELSE IF field.v = S("title_text") /\ ~Truthy(Field(p, "title"))
                 THEN SetField(p, "title", PyStr(text))
            ELSE p

\* variant of StripNone: every falsy value is stripped (if v)
StripFalsy(d) == [k \in {j \in DOMAIN d : Truthy(d[j])} |-> d[k]]

\* line 190: {k: v for k, v in current_item.items() if v is not None}
StripNone(d) == [k \in {j \in DOMAIN d : ~IsNone(d[j])} |-> d[k]]

\* lines 183-185
EndText(p, tag) ==
    IF tag \in TextTags
    THEN [p EXCEPT !.capture_text = FALSE, !.current_text_field = None]
    ELSE p

\* variant of EndRoot: the entity is appended but the scanner state is kept
EndRootKeepsState(p, tag) ==
    IF ~(tag = "a" /\ p.in_meta_item) THEN p
    ELSE IF Open(p)
         THEN [p EXCEPT !.items = Append(@, StripNone(p.current_item.v))]
         ELSE [p EXCEPT !.in_meta_item = FALSE]

\* variant of EndRoot: a record is appended also when no entity is open
EndRootAppendsUnopened(p, tag) ==
    IF ~(tag = "a" /\ p.in_meta_item) THEN p
    ELSE [p EXCEPT !.items = Append(@, IF Open(p) THEN StripNone(p.current_item.v)
                                       ELSE EmptyDict),
                   !.current_item = None,
                   !.in_meta_item = FALSE]

\* lines 187-193
EndRoot(p, tag) ==
    IF ~(tag = "a" /\ p.in_meta_item) THEN p
    ELSE IF Open(p)
         THEN [p EXCEPT !.items = Append(@, StripNone(p.current_item.v)),
                        !.current_item = None,
                        !.in_meta_item = FALSE]
         ELSE [p EXCEPT !.in_meta_item = FALSE]

\* StremioHTMLParser.handle_endtag
handle_endtag(p, tag) == EndRoot(EndText(p, tag), tag)

-----------------------------------------------------------------------------
(* The handler calls an HTMLParser makes while it is fed a document: start   *)
(* tags with their attribute dict (a valueless attribute has the value None),*)
(* text, and end tags.                                                       *)

StartEv(tag, attrs) == [kind |-> "start", tag |-> tag, attrs |-> attrs, data |-> <<>>]
DataEv(data) == [kind |-> "data", tag |-> "", attrs |-> EmptyDict, data |-> data]
EndEv(tag) == [kind |-> "end", tag |-> tag, attrs |-> EmptyDict, data |-> <<>>]

Marker == PyStr(S("meta-item-container"))

\* <a class="meta-item-container" href="#/detail/movie/tt1" title="Film">
RootMovie == StartEv("a", [class |-> Marker, href |-> PyStr(S("#/detail/movie/tt1")),
                           title |-> PyStr(S("Film"))])
\* <a class="meta-item-container" href="#/detail/series/tt2:0:3" data-id="7">
RootEpisode == StartEv("a", ("data-id" :> PyStr(S("7"))) @@
                            [class |-> Marker, href |-> PyStr(S("#/detail/series/tt2:0:3"))])
\* <a class="meta-item-container" href="#/detail/series/tt4" title="">
RootShow == StartEv("a", [class |-> Marker, href |-> PyStr(S("#/detail/series/tt4")),
                          title |-> PyStr(<<>>)])
\* <a class="meta-item-container" href="#/detail/movie/tt3:1:2" title="Part">
RootMovieEpisode == StartEv("a", [class |-> Marker,
                                  href |-> PyStr(S("#/detail/movie/tt3:1:2")),
                                  title |-> PyStr(S("Part"))])
\* <a class="meta-item-container" href="#/detail/series/tt&#1635;:&#1632;:&#1634;">,
\* the identifier and the numbers written in Arabic-Indic digits (3, 0, 2)
RootArabic == StartEv("a", [class |-> Marker,
                            href |-> PyStr(S("#/detail/series/tt") \o <<1635, 58, 1632, 58, 1634>>)])
\* a number of 4301 digits, one more than int() takes
LongNumber == [i \in 1..4301 |-> 57]
\* <a class="meta-item-container" href="#/detail/series/tt6:99...9:1">
RootLongSeason == StartEv("a", [class |-> Marker,
                                href |-> PyStr(S("#/detail/series/tt6:") \o LongNumber
                                               \o S(":1"))])
\* <a class="meta-item-container" href="#/detail/series/tt6:1:99...9">
RootLongEpisode == StartEv("a", [class |-> Marker,
                                 href |-> PyStr(S("#/detail/series/tt6:1:") \o LongNumber)])
\* <a class="meta-item-container" href="#/settings">
RootNoId == StartEv("a", [class |-> Marker, href |-> PyStr(S("#/settings"))])
\* <a href="#/more">
PlainLink == StartEv("a", [href |-> PyStr(S("#/more"))])
\* <div class="watched-icon-layer">
WatchedIcon == StartEv("div", [class |-> PyStr(S("watched-icon-layer"))])

Bar(width) == StartEv("div", [class |-> PyStr(S("progress-bar")),
                              style |-> PyStr(S("width: ") \o width \o S("%"))])
\* <div class="progressBar" style="width:95%">
\* <div class="progress-bar" style="width: &#12288;&#1636;&#1637;.&#1637;%">: an
\* ideographic space, and 45.5 in Arabic-Indic digits
BarArabic == Bar(<<12288, 1636, 1637, 46, 1637>>)
\* <div class="progress-bar" style="width: 99...9%">, 400 digits: above every
\* float but inf
BarNines == Bar([i \in 1..400 |-> 57])
BarCamel == StartEv("div", [class |-> PyStr(S("progressBar")), style |-> PyStr(S("width:95%"))])

\* <div class="poster-image" style='background-image: url("http://h/a%20b.jpg")'>
PosterA == StartEv("div", [class |-> PyStr(S("poster-image")),
                           style |-> PyStr(S("background-image: url(\"http://h/a%20b.jpg\")"))])
\* <div class="Thumbnail poster-shape-square" style="background-image:url('http://h/c.jpg')">
PosterB == StartEv("div", [class |-> PyStr(S("Thumbnail poster-shape-square")),
                           style |-> PyStr(S("background-image:url('http://h/c.jpg')"))])
\* <img src="http://h/%E2%82%AC%2Fj.png" alt="Alt">
ImgTag == StartEv("img", [src |-> PyStr(S("http://h/%E2%82%AC%2Fj.png")),
                          alt |-> PyStr(S("Alt"))])
\* <img alt="Alt">
ImgAlt == StartEv("img", [alt |-> PyStr(S("Alt"))])
\* <span style="color:red; background-image: url(http://h/s.jpg)">
StyledSpan == StartEv("span",
                      [style |-> PyStr(S("color:red; background-image: url(http://h/s.jpg)"))])

\* <div class="title-label">
TitleLabel == StartEv("div", [class |-> PyStr(S("title-label"))])

\* the text Name between an ideographic space and a line separator
NameWide == DataEv(<<12288>> \o S("Name") \o <<8232>>)

\* <span class="Episode-Title">
SpanEpisodeTitle == StartEv("span", [class |-> PyStr(S("Episode-Title"))])
\* <p class="release-runtime">
ParaReleaseRuntime == StartEv("p", [class |-> PyStr(S("release-runtime"))])

\* tags with a valueless attribute
BareClassLink == StartEv("a", [class |-> None])
BareHrefRoot == StartEv("a", [class |-> Marker, href |-> None])
BareTitleRoot == StartEv("a", [class |-> Marker, href |-> PyStr(S("#/detail/movie/tt5")),
                               title |-> None])
BareClassDiv == StartEv("div", [class |-> None])
BareClassSpan == StartEv("span", [class |-> None])
BareStyleBar == StartEv("div", [class |-> PyStr(S("progress-bar")), style |-> None])
BareStyleSpan == StartEv("span", [style |-> None])
BareImg == StartEv("img", [src |-> None, alt |-> None])

EndA == EndEv("a")
EndDiv == EndEv("div")
EndSpan == EndEv("span")

\* the handler calls of each family of documents
Alphabet ==
    [roots |-> {RootMovie, RootEpisode, RootArabic, RootNoId, PlainLink, WatchedIcon,
               EndA},
     bare |-> {RootMovie, BareClassLink, BareHrefRoot, BareTitleRoot, BareClassDiv,
               BareClassSpan, BareStyleBar, BareStyleSpan, BareImg, EndA},
     progress |-> {RootMovie, BarArabic, Bar(S("150")), Bar(S("1.2.3")), Bar(S(".")), BarCamel,
                   EndA},
     poster |-> {RootMovie, PosterA, PosterB, ImgTag, StyledSpan, EndA},
     title |-> {RootShow, RootMovie, TitleLabel, ImgAlt, NameWide, EndDiv,
                EndA},
     capture |-> {RootShow, RootNoId, SpanEpisodeTitle, ParaReleaseRuntime,
                  DataEv(S("  Name \n")), EndSpan, EndA},
     numbers |-> {RootMovie, RootLongSeason, RootLongEpisode, BarNines,
                  Bar(S("90.00000000000000001")), EndA}]

Families == DOMAIN Alphabet

-----------------------------------------------------------------------------
(* Specification Spec: one parser, fed one handler call at a time.           *)

Parser == [items |-> items, current_item |-> current_item,
           in_meta_item |-> in_meta_item, in_title_label |-> in_title_label,
           capture_text |-> capture_text, current_text_field |-> current_text_field,
           err |-> err]

Becomes(p) == /\ items' = p.items
              /\ current_item' = p.current_item
              /\ in_meta_item' = p.in_meta_item
              /\ in_title_label' = p.in_title_label
              /\ capture_text' = p.capture_text
              /\ current_text_field' = p.current_text_field
              /\ err' = p.err

Stdin == [t |-> "stdin", v |-> "<stdin>"]
Stdout == [t |-> "stdout", v |-> "<stdout>"]
\* an open file: the name it was opened by, and the names that lead to it
\* from the root
File(name, path) == [t |-> "file", v |-> name, path |-> path]
NoFiles == [name \in {} |-> <<>>]

\* lines 326-360: the defaults of the arguments
NoArgs == [input |-> Stdin, output |-> Stdout, min_progress |-> PyInt(0),
           watched_only |-> FALSE, no_watchlist |-> FALSE, use_current_date |-> FALSE]

\* html_content: a document that was read, with what html_content.strip()
\* says of it (blank) and the handler calls that feeding it makes; and the
\* variable before line 365 has bound it
Document(blank, events) == [read |-> TRUE, blank |-> blank, events |-> events]
NotRead == [read |-> FALSE, blank |-> FALSE, events |-> <<>>]

MainIdle == /\ argv = <<>>
            /\ args = NoArgs
            /\ html_content = NotRead
            /\ main_items = <<>>
            /\ trakt_items = <<>>
            /\ output = <<>>
            /\ stdout = <<>>
            /\ files = NoFiles
            /\ exit_code = -1

Init == /\ items = NewParser.items
        /\ current_item = NewParser.current_item
        /\ in_meta_item = NewParser.in_meta_item
        /\ in_title_label = NewParser.in_title_label
        /\ capture_text = NewParser.capture_text
        /\ current_text_field = NewParser.current_text_field
        /\ err = NewParser.err
        /\ log = <<>>
        /\ family \in Families
        /\ pc = "feed"
        /\ MainIdle

\* HTMLParser.feed may call a handler while none has raised
CanFeed == pc = "feed" /\ err = "none" /\ Len(log) < MaxEvents

Events(kind) == {e \in Alphabet[family] : e.kind = kind}

FeedStartTag ==
    \E e \in Events("start") :
        /\ CanFeed
        /\ Becomes(handle_starttag(Parser, e.tag, e.attrs))
        /\ log' = Append(log, e)
        /\ UNCHANGED <<family, mainVars>>

FeedData ==
    \E e \in Events("data") :
        /\ CanFeed
        /\ Becomes(handle_data(Parser, e.data))
        /\ log' = Append(log, e)
        /\ UNCHANGED <<family, mainVars>>

FeedEndTag ==
    \E e \in Events("end") :
        /\ CanFeed
        /\ Becomes(handle_endtag(Parser, e.tag))
        /\ log' = Append(log, e)
        /\ UNCHANGED <<family, mainVars>>

Next == FeedStartTag \/ FeedData \/ FeedEndTag

Spec == Init /\ [][Next]_vars

-----------------------------------------------------------------------------
(* The transformer.                                                          *)

Put(d, cond, k, x) == IF cond THEN SetItem(d, k, x) ELSE d

\* variant of IsWatched: progress of 90 counts as watched
IsWatchedFrom90(item) ==
    \/ Truthy(Get(item, "is_watched", PyBool(FALSE)))
    \/ NumGE(Get(item, "progress", PyInt(0)), PyInt(90))

\* line 243 and line 400: item.get('is_watched', False) or item.get('progress', 0) > 90
WatchedThreshold == 90
IsWatched(item) ==
    \/ Truthy(Get(item, "is_watched", PyBool(FALSE)))
    \/ NumGT(Get(item, "progress", PyInt(0)), PyInt(WatchedThreshold))

\* variant of HasEpisodeInfo: truthiness instead of "is not None"
HasEpisodeInfoTruthy(item) ==
    Truthy(Get(item, "season", None)) /\ Truthy(Get(item, "episode", None))

\* lines 232-235
HasEpisodeInfo(item) ==
    ~IsNone(Get(item, "season", None)) /\ ~IsNone(Get(item, "episode", None))

\* variant of AddsWatchlist: only entities that are not watched are watchlisted
AddsWatchlistIfUnwatched(item, add_watchlist) == add_watchlist /\ ~IsWatched(item)

\* line 238: if add_watchlist
AddsWatchlist(item, add_watchlist) == add_watchlist

\* lines 222-265, the body of the loop.  The clock is read once for each
\* field that takes the current time: now.watchlisted_at is what
\* datetime.now().isoformat() gives at line 239, now.watched_at what it gives
\* at line 249.
ConvertItem(item, add_watchlist, mark_unknown_dates, now) ==
    LET t0 == [imdb_id |-> Get(item, "imdb_id", None), type |-> Get(item, "type", None)]
        t1 == Put(t0, Truthy(Get(item, "title", None)), "title", Get(item, "title", None))
        t2 == IF HasEpisodeInfo(item)
              THEN SetItem(SetItem(SetItem(t1, "type", PyStr(S("episode"))),
                                   "season", Get(item, "season", None)),
                           "episode", Get(item, "episode", None))
              ELSE t1
        t3 == Put(t2, AddsWatchlist(item, add_watchlist), "watchlisted_at",
                  PyStr(now.watchlisted_at \o S("Z")))
        t4 == Put(t3, IsWatched(item), "watched_at",
                  IF mark_unknown_dates THEN PyStr(S("unknown"))
                  ELSE PyStr(now.watched_at \o S("Z")))
        t5 == Put(t4, Truthy(Get(item, "href", None)), "_href", Get(item, "href", None))
        t6 == Put(t5, Truthy(Get(item, "poster_url", None)), "_poster_url",
                  Get(item, "poster_url", None))
        t7 == Put(t6, NumGT(Get(item, "progress", PyInt(0)), PyInt(0)), "_progress",
                  Get(item, "progress", None))
        t8 == Put(t7, Truthy(Get(item, "year", None)), "_year", Get(item, "year", None))
        t9 == Put(t8, Truthy(Get(item, "duration", None)), "_duration",
                  Get(item, "duration", None))
    IN Put(t9, Truthy(Get(item, "episode_title", None)), "_episode_title",
           Get(item, "episode_title", None))

\* convert_to_trakt_format; clock[i] holds the readings of the clock made for
\* the i-th item
convert_to_trakt_format(its, add_watchlist, mark_unknown_dates, clock) ==
    [i \in 1..Len(its) |->
        ConvertItem(its[i], add_watchlist, mark_unknown_dates, clock[i])]

\* lines 279-310, the body of the loop
FormatItem(item) ==
    LET e0 == [imdb_id |-> item["imdb_id"], type |-> item["type"]]
        e1 == Put(e0, Truthy(Get(item, "title", None)), "title", Get(item, "title", None))
        e2 == Put(e1, "watched_at" \in DOMAIN item, "watched_at",
                  Get(item, "watched_at", None))
        e3 == Put(e2, "watchlisted_at" \in DOMAIN item, "watchlisted_at",
                  Get(item, "watchlisted_at", None))
        e4 == Put(e3, "rating" \in DOMAIN item, "rating", Get(item, "rating", None))
        e5 == Put(e4, "rating" \in DOMAIN item /\ "rated_at" \in DOMAIN item, "rated_at",
                  Get(item, "rated_at", None))
        e6 == IF item["type"] = PyStr(S("episode"))
              THEN SetItem(SetItem(e5, "season", Get(item, "season", None)),
                           "episode", Get(item, "episode", None))
              ELSE e5
        extra == {k \in DOMAIN item : MatchAt(k, 1, "_") /\ ~IsNone(item[k])}
    IN [k \in DOMAIN e6 \cup extra |-> IF k \in extra THEN item[k] ELSE e6[k]]

\* variant of format_for_trakt_import: entries without a title are left out
FormatSkipsUntitled(its) ==
    LET titled == SelectSeq(its, LAMBDA it : "title" \in DOMAIN it)
    IN [i \in 1..Len(titled) |-> FormatItem(titled[i])]

\* format_for_trakt_import
format_for_trakt_import(its) == [i \in 1..Len(its) |-> FormatItem(its[i])]

-----------------------------------------------------------------------------
(* The command line: parser.parse_args() of line 362, for the parser that    *)
(* lines 318-360 build.  parse_args ends the process with status 2 on an     *)
(* argument it cannot use and with status 0 after --help and --version, and  *)
(* it opens the files the arguments name as it meets them.                   *)

\* The run starts in the directory /work, which holds the files in.html and
\* out.json.  The root holds /work and nothing else, and files can be made in
\* both.  A file is the sequence of the names that lead to it from the root.
WorkDir == <<S("work")>>
Directories == {<<>>, WorkDir}
ExistingFiles == {Append(WorkDir, S("in.html")), Append(WorkDir, S("out.json"))}

\* The file that open() takes a path for: the names between the slashes are
\* followed from the root, or from the working directory when the path does
\* not start with a slash; an empty name and . stay, .. goes up, and any
\* other name but the last must be a directory.  No file is found for a path
\* that ends in a slash, . or .., that has a NUL in it or a surrogate that
\* cannot be encoded (one outside U+DC80-U+DCFF, which stand for single
\* bytes), or whose encoding is longer than 4095 bytes.  PathBytes is the
\* number of bytes of the encoding os.fsencode gives a string (UTF-8).
PathBytes(string) ==
    Len(string)
    + Cardinality({i \in 1..Len(string) : string[i] >= 128 /\ string[i] \notin 56448..56575})
    + Cardinality({i \in 1..Len(string) : string[i] >= 2048 /\ string[i] \notin 56448..56575})
    + Cardinality({i \in 1..Len(string) : string[i] >= 65536})
\* the names at the positions i..j of the path string, followed one after
\* the other from the directory reached so far (at); a position inside a
\* name changes nothing, and no file is found behind a name that is longer
\* than 255 bytes
RECURSIVE Walk(_, _, _, _)
Walk(string, at, i, j) ==
    LET NoPath == [found |-> FALSE, names |-> <<>>]
        n == RunNot(string, i, {47})
        name == SubSeq(string, i, i + n - 1)
        Name ==
            IF i > 1 /\ string[i - 1] # 47 THEN at
            ELSE IF PathBytes(name) > 255 THEN NoPath
            ELSE IF i + n > Len(string)
            THEN IF name \in {<<>>, S("."), S("..")} THEN NoPath
                 ELSE [at EXCEPT !.names = Append(@, name)]
            ELSE IF name \in {<<>>, S(".")} THEN at
            ELSE IF name = S("..") THEN [at EXCEPT !.names = SubSeq(@, 1, Len(@) - 1)]
            ELSE IF Append(at.names, name) \in Directories
            THEN [at EXCEPT !.names = Append(@, name)]
            ELSE NoPath
        first == Walk(string, at, i, (i + j) \div 2)
    IN IF i = j THEN Name
       ELSE IF first.found THEN Walk(string, first, (i + j) \div 2 + 1, j)
       ELSE NoPath
Resolve(string) ==
    IF \/ \E i \in 1..Len(string) :
              string[i] = 0 \/ string[i] \in 55296..57343 \ 56448..56575
       \/ PathBytes(string) > 4095
    THEN [found |-> FALSE, names |-> <<>>]
    ELSE Walk(string,
              [found |-> TRUE,
               names |-> IF string # <<>> /\ string[1] = 47 THEN <<>> ELSE WorkDir],
              1, Len(string) + 1)

\* lines 322-360 and the -h/--help option of every ArgumentParser: the
\* option strings, and the argument each one names
OptionStrings == {S("-h"), S("--help"), S("-v"), S("--version"), S("-o"), S("--output"),
                  S("--no-watchlist"), S("--use-current-date"), S("--watched-only"),
                  S("--min-progress")}

\* line 325: the text of --version, prog being the name of the script
VersionText == S("stremio_to_trakt.py 1.0.0\n")
\* the text of --help, as it is laid out for a width of 80 columns
HelpText ==
    S("usage: stremio_to_trakt.py [-h] [-v] [-o OUTPUT] [--no-watchlist]\n")
    \o S("                           [--use-current-date] [--watched-only]\n")
    \o S("                           [--min-progress MIN_PROGRESS]\n")
    \o S("                           [input]\n\n")
    \o S("Extract media from Stremio HTML and convert to Trakt import format\n\n")
    \o S("positional arguments:\n")
    \o S("  input                 Input HTML file (or stdin)\n\n")
    \o S("options:\n")
    \o S("  -h, --help            show this help message and exit\n")
    \o S("  -v, --version         show program's version number and exit\n")
    \o S("  -o OUTPUT, --output OUTPUT\n")
    \o S("                        Output JSON file (default: stdout)\n")
    \o S("  --no-watchlist        Do not add watchlisted_at field (by default all items\n")
    \o S("                        get watchlisted_at)\n")
    \o S("  --use-current-date    Use current date instead of \"unknown\" for watched_at\n")
    \o S("  --watched-only        Only include items that are marked as watched\n")
    \o S("  --min-progress MIN_PROGRESS\n")
    \o S("                        Minimum progress percentage to include (default: 0)\n\n")
    \o S("For more info: https://gist.github.com/asamgx/622f920a7a22f562b89b9b2f1ee3326e\n")

\* what ArgumentParser._parse_optional makes of an argument string: a
\* positional argument (A), the separator --, an option (O) with the argument
\* it names ("" when the parser has no such option) and the argument string
\* written in the same word, or an abbreviation of more than one option
OptionTuple(option_string, has_explicit_arg, explicit_arg) ==
    LET dest ==
            CASE option_string \in {S("-h"), S("--help")} -> "help"
              [] option_string \in {S("-v"), S("--version")} -> "version"
              [] option_string \in {S("-o"), S("--output")} -> "output"
              [] option_string = S("--no-watchlist") -> "no_watchlist"
              [] option_string = S("--use-current-date") -> "use_current_date"
              [] option_string = S("--watched-only") -> "watched_only"
              [] option_string = S("--min-progress") -> "min_progress"
    IN [kind |-> "O", dest |-> dest, option_string |-> option_string,
        has_explicit_arg |-> has_explicit_arg, explicit_arg |-> explicit_arg]
Positional ==
    [kind |-> "A", dest |-> "", option_string |-> <<>>, has_explicit_arg |-> FALSE,
     explicit_arg |-> <<>>]

\* ArgumentParser._parse_optional, with _get_option_tuples (the options a
\* word can stand for: a long option by any of its prefixes, a short one
\* with its argument attached) and _negative_number_matcher
\* (^-\d+$|^-\d*\.\d+$)
parse_optional(s) ==
    LET eq == FirstOf(s, {61})
        Ambiguous == [Positional EXCEPT !.kind = "ambiguous"]
        Unrecognized == [Positional EXCEPT !.kind = "O", !.option_string = s]
        IsNegativeNumber ==
            LET t == IF Len(s) > 0 /\ Ch(s, Len(s)) = 10
                     THEN SubSeq(s, 1, Len(s) - 1) ELSE s
                whole == Run(t, 2, Digit)
            IN /\ MatchAt(t, 1, S("-"))
               /\ \/ whole >= 1 /\ whole = Len(t) - 1
                  \/ /\ MatchAt(t, 2 + whole, S("."))
                     /\ Run(t, 3 + whole, Digit) >= 1
                     /\ Run(t, 3 + whole, Digit) = Len(t) - whole - 2
        option_tuples ==
            IF Ch(s, 2) = 45
            THEN LET option_prefix == IF eq = 0 THEN s ELSE SubSeq(s, 1, eq - 1)
                     explicit_arg == IF eq = 0 THEN <<>> ELSE SubSeq(s, eq + 1, Len(s))
                 IN {OptionTuple(o, eq # 0, explicit_arg) :
                        o \in {x \in OptionStrings : MatchAt(x, 1, option_prefix)}}
            ELSE {OptionTuple(o, TRUE, SubSeq(s, 3, Len(s))) :
                     o \in {x \in OptionStrings : x = SubSeq(s, 1, 2)}}
                 \cup {OptionTuple(o, FALSE, <<>>) :
                          o \in {x \in OptionStrings :
                                    x # SubSeq(s, 1, 2) /\ MatchAt(x, 1, s)}}
    IN IF s = <<>> THEN Positional
       ELSE IF Ch(s, 1) # 45 THEN Positional
       ELSE IF s \in OptionStrings THEN OptionTuple(s, FALSE, <<>>)
       ELSE IF Len(s) = 1 THEN Positional
       ELSE IF eq # 0 /\ SubSeq(s, 1, eq - 1) \in OptionStrings
            THEN OptionTuple(SubSeq(s, 1, eq - 1), TRUE, SubSeq(s, eq + 1, Len(s)))
       ELSE IF Cardinality(option_tuples) > 1 THEN Ambiguous
       ELSE IF Cardinality(option_tuples) = 1 THEN CHOOSE t \in option_tuples : TRUE
       ELSE IF IsNegativeNumber THEN Positional
       ELSE IF In(S(" "), s) THEN Positional
       ELSE Unrecognized

\* the arg_strings_pattern of _parse_known_args: every argument string after
\* the first -- is a positional argument
Pattern(arg_strings) ==
    [i \in 1..Len(arg_strings) |->
        IF \E j \in 1..(i - 1) : arg_strings[j] = S("--") THEN Positional
        ELSE IF arg_strings[i] = S("--") THEN [Positional EXCEPT !.kind = "-"]
        ELSE parse_optional(arg_strings[i])]

\* The state of _parse_known_args (st): the index of the next argument string,
\* the namespace, the files opened for writing, whether the positional input
\* is still to be filled, whether an argument string was left over (extras),
\* and, once the process has ended, its status and what it wrote to stdout.
\* ArgumentParser.exit, and ArgumentParser.error, which exits with status 2
\* after writing to stderr
Exit(st, status, text) ==
    [st EXCEPT !.exited = TRUE, !.status = status, !.stdout = text]
Error(st) == Exit(st, 2, <<>>)
Store(st, dest, value) == [st EXCEPT !.namespace[dest] = value]

\* FileType('r') and FileType('w'): - is the standard stream; a file that
\* cannot be opened is an error, a file opened for writing is made empty.  A
\* file is opened for reading when it exists, and for writing when its path
\* leads to a name that is no directory.
FileTypeR(st, dest, string) ==
    LET Opened(path) ==
            IF path.found /\ path.names \in ExistingFiles \cup DOMAIN st.files
            THEN Store(st, dest, File(string, path.names))
            ELSE Error(st)
    IN IF string = S("-") THEN Store(st, dest, Stdin) ELSE Opened(Resolve(string))
FileTypeW(st, dest, string) ==
    LET Truncated(file) == [n \in DOMAIN st.files \cup {file} |->
                               IF n = file THEN <<>> ELSE st.files[n]]
        Opened(path) ==
            IF path.found /\ path.names \notin Directories
            THEN [Store(st, dest, File(string, path.names))
                      EXCEPT !.files = Truncated(path.names)]
            ELSE Error(st)
    IN IF string = S("-") THEN Store(st, dest, Stdout) ELSE Opened(Resolve(string))

\* take_action: the values of the argument strings (_get_values, _get_value)
\* and the action of the argument.  An argument that takes one string and is
\* left with none gets the empty list; the positional keeps its default.
\* _get_values drops the first -- of the argument strings.
take_action(st, dest, arg_strings) ==
    LET hits == {i \in 1..Len(arg_strings) : arg_strings[i] = S("--")}
        values == IF hits = {} THEN arg_strings
                  ELSE SubSeq(arg_strings, 1, Leftmost(hits) - 1)
                       \o SubSeq(arg_strings, Leftmost(hits) + 1, Len(arg_strings))
    IN CASE dest = "help" -> Exit(st, 0, <<HelpText>>)
         [] dest = "version" -> Exit(st, 0, <<VersionText>>)
         [] dest \in {"no_watchlist", "use_current_date", "watched_only"} ->
                Store(st, dest, TRUE)
         [] dest = "min_progress" ->
                IF values = <<>> THEN Store(st, dest, EmptyList)
                ELSE IF ~IsFloatText(values[1]) THEN Error(st)
                ELSE Store(st, dest, Float(values[1]))
         [] dest = "output" ->
                IF values = <<>> THEN Store(st, dest, EmptyList)
                ELSE FileTypeW(st, dest, values[1])
         [] dest = "input" ->
                IF values = <<>> THEN st ELSE FileTypeR(st, dest, values[1])

RECURSIVE take_actions(_, _)
take_actions(st, action_tuples) ==
    IF action_tuples = <<>> \/ st.exited THEN st
    ELSE take_actions(take_action(st, Head(action_tuples).dest, Head(action_tuples).args),
                      Tail(action_tuples))

\* the loop of consume_optional: the actions that the option at index i and
\* the single-dash options written in the same word stand for, and the index
\* after them; failed when an argument string is missing or cannot be used
RECURSIVE OptionActions(_, _, _, _, _)
OptionActions(arg_strings, pattern, i, option, action_tuples) ==
    LET Failed == [failed |-> TRUE, action_tuples |-> <<>>, stop |-> i]
        \* the options that take one argument string; the others take none
        TakesArgument(dest) == dest \in {"output", "min_progress"}
        Matched(strings, stop) ==
            [failed |-> FALSE, stop |-> stop,
             action_tuples |-> Append(action_tuples,
                                      [dest |-> option.dest, args |-> strings])]
        next == <<45, Ch(option.explicit_arg, 1)>>
        rest == SubSeq(option.explicit_arg, 2, Len(option.explicit_arg))
    IN IF option.has_explicit_arg
       THEN IF /\ ~TakesArgument(option.dest)
               /\ Ch(option.option_string, 2) # 45
               /\ option.explicit_arg # <<>>
            THEN IF next \in OptionStrings
                 THEN OptionActions(arg_strings, pattern, i,
                                    OptionTuple(next, rest # <<>>, rest),
                                    Matched(<<>>, i).action_tuples)
                 ELSE Failed
            ELSE IF TakesArgument(option.dest)
                 THEN Matched(<<option.explicit_arg>>, i + 1)
                 ELSE Failed
       ELSE IF TakesArgument(option.dest)
            THEN IF i + 1 <= Len(arg_strings) /\ pattern[i + 1].kind = "A"
                 THEN Matched(<<arg_strings[i + 1]>>, i + 2)
                 ELSE Failed
            ELSE Matched(<<>>, i + 1)

\* the loop of _parse_known_args over the argument strings up to the last
\* option, and what follows it.  consume_positional is consume_positionals
\* before an option: the first positional argument string is the input, any
\* other is left over.  consume_remaining is consume_positionals after the
\* last option: the input takes what -*A?-* matches of the argument strings
\* that remain, the others are left over.
RECURSIVE consume(_, _, _)
consume(arg_strings, pattern, st) ==
    LET Act(found) ==
            IF found.failed THEN Error(st)
            ELSE take_actions([st EXCEPT !.i = found.stop], found.action_tuples)
        consume_optional ==
            IF pattern[st.i].dest = "" THEN [st EXCEPT !.i = @ + 1, !.extras = TRUE]
            ELSE Act(OptionActions(arg_strings, pattern, st.i, pattern[st.i], <<>>))
        consume_positional ==
            IF st.positionals
            THEN take_action([st EXCEPT !.i = @ + 1, !.positionals = FALSE], "input",
                             <<arg_strings[st.i]>>)
            ELSE [st EXCEPT !.i = @ + 1, !.extras = TRUE]
        Kind(j) == IF j <= Len(arg_strings) THEN pattern[j].kind ELSE ""
        before == IF Kind(st.i) = "-" THEN 1 ELSE 0
        one == IF Kind(st.i + before) = "A" THEN 1 ELSE 0
        after == IF Kind(st.i + before + one) = "-" THEN 1 ELSE 0
        Take(stop) ==
            IF st.positionals
            THEN take_action([st EXCEPT !.i = stop, !.positionals = FALSE],
                             "input", SubSeq(arg_strings, st.i, stop - 1))
            ELSE st
        LeaveOver(taken) ==
            IF taken.exited THEN taken
            ELSE [taken EXCEPT !.i = Len(arg_strings) + 1,
                               !.extras = @ \/ taken.i <= Len(arg_strings)]
        consume_remaining == LeaveOver(Take(st.i + before + one + after))
    IN IF st.exited THEN st
       ELSE IF \E j \in st.i..Len(arg_strings) : pattern[j].kind = "O"
       THEN consume(arg_strings, pattern,
                    IF pattern[st.i].kind = "O" THEN consume_optional
                    ELSE consume_positional)
       ELSE consume_remaining

\* parser.parse_args(): an ambiguous abbreviation is an error before any
\* argument is acted on, an argument string left over is one after all are
parse_args(arg_strings, namespace) ==
    LET start == [i |-> 1, namespace |-> namespace, files |-> NoFiles,
                  positionals |-> TRUE, extras |-> FALSE, exited |-> FALSE,
                  status |-> 0, stdout |-> <<>>]
        Finish(st) == IF ~st.exited /\ st.extras THEN Error(st) ELSE st
        Parse(pattern) ==
            IF \E i \in 1..Len(arg_strings) : pattern[i].kind = "ambiguous"
            THEN Error(start)
            ELSE Finish(consume(arg_strings, pattern, start))
    IN Parse(Pattern(arg_strings))

-----------------------------------------------------------------------------
(* Specification SpecMain: main(), one step per statement group.             *)

\* HTMLParser.feed: the handler calls of a document, in order, until one raises
RECURSIVE Feed(_, _, _)
Feed(p, events, calls) ==
    LET e == Head(events)
        handled == IF e.kind = "start" THEN handle_starttag(p, e.tag, e.attrs)
                   ELSE IF e.kind = "data" THEN handle_data(p, e.data)
                   ELSE handle_endtag(p, e.tag)
    IN IF events = <<>> \/ p.err # "none" THEN [parser |-> p, calls |-> calls]
       ELSE Feed(handled, Tail(events), calls + 1)

\* the cards a library page is made of
Cards == {<<RootMovie, EndA>>,
          <<RootMovie, WatchedIcon, EndA>>,
          <<RootEpisode, Bar(S("45.5")), EndA>>,
          <<RootShow, Bar(<<1641, 1632>>), EndA>>,
          <<RootMovieEpisode, Bar(S("91")), EndA>>,
          <<RootNoId, EndA>>,
          <<RootMovie, BarNines, EndA>>,
          <<RootMovie, Bar(S("1.2.3")), EndA>>}

RECURSIVE Pages(_)
Pages(n) == IF n = 0 THEN {<<>>}
            ELSE Pages(n - 1) \cup {d \o c : d \in Pages(n - 1), c \in Cards}

\* the documents read: html_content.strip() is empty (blank) or not
Documents ==
    {Document(TRUE, <<>>), Document(TRUE, <<DataEv(S(" \n"))>>)}
    \cup {Document(FALSE, d) : d \in Pages(MaxCards)}

\* the command lines: the options of the filters and of the fields, alone
\* and together; the ones that name files; and the ones that end the run in
\* parse_args or leave it an argument that is no number and no file
CommandLines ==
    LET FilterLines == {<<>>,
                        <<S("--watched-only")>>,
                        <<S("--min-progress"), S("45.5")>>,
                        <<S("--min-progress=") \o <<1641, 1632>>>>,
                        <<S("--min-progress"), <<45, 1637>>>>,
                        <<S("--watched-only"), S("--min-progress"), S("90")>>,
                        <<S("--min-progress"), S("nan")>>,
                        <<S("--min-progress=1e400")>>,
                        <<S("--min-progress"), S("1e-400")>>}
        FieldLines == {<<S("--no-watchlist")>>,
                       <<S("--use-current-date")>>,
                       <<S("--no-watchlist"), S("--use-current-date")>>,
                       <<S("--use-current-date"), S("--watched-only")>>,
                       <<S("--min-progress=45.5"), S("--no-watchlist")>>,
                       <<S("--no-watchlist"), S("--use-current-date"), S("--watched-only"),
                         S("--min-progress"), S("90")>>}
        FileLines == {<<S("in.html")>>,
                      <<S("-o"), S("out.json")>>,
                      <<S("--watched-only"), S("in.html"), S("-onew.json")>>,
                      <<S("-o"), S("./in.html"), S("/work/in.html")>>,
                      <<S("../work//in.html"), S("-o"), S("/new.json")>>,
                      <<S("new.json"), S("-o"), S("new.json")>>,
                      <<S("--output=new.json"), S("--"), S("out.json")>>}
        UsageLines == {<<S("--min-progress"), S("abc")>>,
                       <<S("--min-progress")>>,
                       <<S("--bogus")>>,
                       <<S("missing.html")>>,
                       <<S("in.html"), S("out.json")>>,
                       <<S("--version")>>,
                       <<S("-h")>>,
                       <<S("-o"), S("out.json"), S("--bogus")>>,
                       <<S("-o"), S("out.json"), S("-v")>>,
                       <<S("--version"), S("-o"), S("out.json")>>,
                       <<S("-o"), S("out.json"), S("--=x")>>,
                       <<S("-o"), S("nodir/out.json")>>,
                       <<S("-o"), [i \in 1..256 |-> 97]>>,
                       <<S("in.html/")>>,
                       <<S("--watched-only=1")>>,
                       <<S("-vh")>>,
                       <<S("--min-progress=--")>>,
                       <<S("-o--")>>}
    IN FilterLines \cup FieldLines \cup FileLines \cup UsageLines

\* datetime.now().isoformat(): the microseconds are left out when they are 0
Clock == {S("2024-05-01T10:00:00"), S("2024-05-01T10:00:00.250000")}

\* the readings of the clock made for one item, one for each field that line
\* 239 or line 249 fills with the current time (Unread where the line is not
\* reached), and the readings made for the items of a list
RECURSIVE ClockReadings(_, _, _)
ClockReadings(its, add_watchlist, mark_unknown_dates) ==
    LET Unread == <<>>
        Readings(item) ==
            [watchlisted_at : IF AddsWatchlist(item, add_watchlist)
                              THEN Clock ELSE {Unread},
             watched_at : IF IsWatched(item) /\ ~mark_unknown_dates
                          THEN Clock ELSE {Unread}]
    IN IF its = <<>> THEN {<<>>}
       ELSE {<<now>> \o clock :
                now \in Readings(Head(its)),
                clock \in ClockReadings(Tail(its), add_watchlist, mark_unknown_dates)}

InitMain == /\ items = NewParser.items
            /\ current_item = NewParser.current_item
            /\ in_meta_item = NewParser.in_meta_item
            /\ in_title_label = NewParser.in_title_label
            /\ capture_text = NewParser.capture_text
            /\ current_text_field = NewParser.current_text_field
            /\ err = NewParser.err
            /\ log = <<>>
            /\ family = "main"
            /\ pc = "parse_args"
            /\ argv \in CommandLines
            /\ args = NoArgs
            /\ html_content = NotRead
            /\ main_items = <<>>
            /\ trakt_items = <<>>
            /\ output = <<>>
            /\ stdout = <<>>
            /\ files = NoFiles
            /\ exit_code = -1

\* line 362: the namespace, or the end of the process; the output files named
\* on the way are empty from here on
MainParseArgs ==
    /\ pc = "parse_args"
    /\ \E parsed \in {parse_args(argv, NoArgs)} :
          /\ files' = parsed.files
          /\ stdout' = parsed.stdout
          /\ IF parsed.exited
             THEN pc' = "exit" /\ exit_code' = parsed.status /\ UNCHANGED args
             ELSE pc' = "read" /\ args' = parsed.namespace /\ UNCHANGED exit_code
    /\ UNCHANGED <<scanVars, log, family, argv, html_content, main_items, trakt_items,
                   output>>

\* lines 364-369: the input holds any document, but a file that the run
\* opened for writing holds nothing
MainRead ==
    /\ pc = "read"
    /\ html_content' \in IF args.input.t = "file" /\ args.input.path \in DOMAIN files
                         THEN {Document(TRUE, <<>>)}
                         ELSE Documents
    /\ IF html_content'.blank
       THEN pc' = "exit" /\ exit_code' = 1
       ELSE pc' = "parse" /\ UNCHANGED exit_code
    /\ UNCHANGED <<scanVars, log, family, argv, args, main_items, trakt_items,
                   output, stdout, files>>

\* line 372 and parse_stremio_html; an exception of a handler leaves main()
MainParse ==
    /\ pc = "parse"
    /\ \E fed \in {Feed(NewParser, html_content.events, 0)} :
          /\ Becomes(fed.parser)
          /\ log' = SubSeq(html_content.events, 1, fed.calls)
    /\ IF err' # "none"
       THEN pc' = "exit" /\ exit_code' = 1 /\ UNCHANGED main_items
       ELSE pc' = "check" /\ main_items' = items' /\ UNCHANGED exit_code
    /\ UNCHANGED <<family, argv, args, html_content, trakt_items, output, stdout, files>>

\* lines 374-379
MainCheckItems ==
    /\ pc = "check"
    /\ IF Len(main_items) = 0
       THEN pc' = "exit" /\ exit_code' = 1
       ELSE pc' = "filter_progress" /\ UNCHANGED exit_code
    /\ UNCHANGED <<scanVars, log, family, argv, args, html_content, main_items,
                   trakt_items, output, stdout, files>>

\* variant of KeepsProgress: an entity exactly at the minimum is dropped
KeepsProgressAbove(item, m) == NumGT(Get(item, "progress", PyInt(0)), m)

\* lines 391-394
KeepsProgress(item, m) == NumGE(Get(item, "progress", PyInt(0)), m)

\* lines 389-394
MainFilterProgress ==
    /\ pc = "filter_progress"
    /\ IF args.min_progress.t = "list"
       THEN \* TypeError: a list is not compared with 0
            pc' = "exit" /\ exit_code' = 1 /\ UNCHANGED main_items
       ELSE /\ main_items' =
                  IF NumGT(args.min_progress, PyInt(0))
                  THEN SelectSeq(main_items, LAMBDA it : KeepsProgress(it, args.min_progress))
                  ELSE main_items
            /\ pc' = "filter_watched"
            /\ UNCHANGED exit_code
    /\ UNCHANGED <<scanVars, log, family, argv, args, html_content, trakt_items,
                   output, stdout, files>>

\* variant of MainFilterWatched: the run fails when the filters leave nothing
MainFilterWatchedFailsOnEmpty ==
    /\ pc = "filter_watched"
    /\ main_items' = IF args.watched_only
                     THEN SelectSeq(main_items, IsWatched)
                     ELSE main_items
    /\ IF Len(main_items') = 0
       THEN pc' = "exit" /\ exit_code' = 1
       ELSE pc' = "convert" /\ UNCHANGED exit_code
    /\ UNCHANGED <<scanVars, log, family, argv, args, html_content, trakt_items,
                   output, stdout, files>>

\* lines 396-401
MainFilterWatched ==
    /\ pc = "filter_watched"
    /\ main_items' = IF args.watched_only
                     THEN SelectSeq(main_items, IsWatched)
                     ELSE main_items
    /\ pc' = "convert"
    /\ UNCHANGED <<scanVars, log, family, argv, args, html_content, trakt_items,
                   output, stdout, files, exit_code>>

\* lines 403-408
MainConvert ==
    /\ pc = "convert"
    /\ \E clock \in ClockReadings(main_items, ~args.no_watchlist, ~args.use_current_date) :
          trakt_items' = convert_to_trakt_format(main_items, ~args.no_watchlist,
                                                 ~args.use_current_date, clock)
    /\ pc' = "format"
    /\ UNCHANGED <<scanVars, log, family, argv, args, html_content, main_items,
                   output, stdout, files, exit_code>>

\* lines 410-411
MainFormat ==
    /\ pc = "format"
    /\ output' = format_for_trakt_import(trakt_items)
    /\ pc' = "write"
    /\ UNCHANGED <<scanVars, log, family, argv, args, html_content, main_items,
                   trakt_items, stdout, files, exit_code>>

\* lines 413-419: json.dump, the newline, and the normal return
MainWrite ==
    /\ pc = "write"
    /\ pc' = "exit"
    /\ CASE args.output.t = "stdout" ->
               /\ stdout' = stdout \o <<output, S("\n")>>
               /\ exit_code' = 0
               /\ UNCHANGED files
         [] args.output.t = "file" ->
               /\ files' = [files EXCEPT ![args.output.path] = @ \o <<output, S("\n")>>]
               /\ exit_code' = 0
               /\ UNCHANGED stdout
         [] args.output.t = "list" ->
               \* AttributeError: a list has no write
               /\ exit_code' = 1
               /\ UNCHANGED <<stdout, files>>
    /\ UNCHANGED <<scanVars, log, family, argv, args, html_content, main_items,
                   trakt_items, output>>

\* what has been written to args.output
written == CASE args.output.t = "stdout" -> stdout
             [] args.output.t = "file" -> files[args.output.path]
             [] args.output.t = "list" -> <<>>

NextMain == \/ MainParseArgs
            \/ MainRead
            \/ MainParse
            \/ MainCheckItems
            \/ MainFilterProgress
            \/ MainFilterWatched
            \/ MainConvert
            \/ MainFormat
            \/ MainWrite

SpecMain == InitMain /\ [][NextMain]_vars

-----------------------------------------------------------------------------
(* Properties of the scanner, stated over the history of handler calls.      *)

Last(l) == l[Len(l)]
Max(js) == CHOOSE i \in js : \A j \in js : j <= i

IsStart(e, tag) == e.kind = "start" /\ e.tag = tag
IsEndA(e) == e.kind = "end" /\ e.tag = "a"
StrAttr(e, k) == k \in DOMAIN e.attrs /\ ~IsNone(e.attrs[k])
\* a link start tag that carries the entity-container marker class
HasMarker(e) == /\ IsStart(e, "a")
                /\ StrAttr(e, "class")
                /\ In(S("meta-item-container"), e.attrs["class"].v)
\* ... and a link target with a parseable identifier
HasParseableId(e) == /\ HasMarker(e)
                     /\ StrAttr(e, "href")
                     /\ ImdbSearch(e.attrs["href"].v).matched
\* every handler call of the documents considered, and among them the root
\* start tags, their identifiers and the episode form of their link targets,
\* each computed once
AllEvents == UNION {Alphabet[f] : f \in Families}
                 \cup UNION {{c[i] : i \in 1..Len(c)} : c \in Cards}
RootStartEvents == {e \in AllEvents : HasParseableId(e)}
RootIds == [e \in RootStartEvents |-> ImdbSearch(e.attrs["href"].v).g2]
EpisodeForms == [h \in {e.attrs["href"].v : e \in RootStartEvents} |-> EpisodeSearch(h)]
IsRootStart(e) == e \in RootStartEvents
RootId(e) == RootIds[e]

RootStarts(l) == {i \in 1..Len(l) : IsRootStart(l[i])}
EndAs(l) == {i \in 1..Len(l) : IsEndA(l[i])}
\* roots that are followed later by a link end tag
ClosedRoots(l) == LET ends == EndAs(l)
                  IN {i \in RootStarts(l) : \E j \in ends : j > i}
\* roots whose next link end tag comes before any other root start tag
Survivors(l) == LET roots == RootStarts(l)
                    ends == EndAs(l)
                IN {i \in roots :
                       \E j \in ends :
                           /\ j > i
                           /\ \A k \in (i + 1)..(j - 1) :
                                 k \notin roots /\ k \notin ends}
Nth(js, n) == CHOOSE i \in js : Cardinality({j \in js : j <= i}) = n
ItemId(n) == items[n]["imdb_id"].v

\* C1 as stated: every root start tag with a parseable identifier that is
\* followed later by a link end tag yields exactly one RawEntity carrying its
\* identifier, also when another root start tag comes before it is closed.
C1_EveryClosedRootYieldsOne ==
    \A x \in {RootId(log[i]) : i \in RootStarts(log)} \cup {ItemId(n) : n \in 1..Len(items)} :
        Cardinality({n \in 1..Len(items) : ItemId(n) = x})
            = Cardinality({i \in ClosedRoots(log) : RootId(log[i]) = x})

\* C1 amended: the output sequence holds, in order, exactly one RawEntity for
\* each root start tag whose next link end tag is reached before any other
\* root start tag with a parseable identifier; a root that is superseded by
\* such a tag before a link end tag yields none, and none is emitted twice.
C1_UnsupersededRootsYieldOne ==
    LET survivors == Survivors(log)
    IN /\ Len(items) = Cardinality(survivors)
       /\ \A n \in 1..Len(items) : ItemId(n) = RootId(log[Nth(survivors, n)])

C1_Witness ==
    /\ Len(items) >= 1
    /\ \E i \in ClosedRoots(log) : i \notin Survivors(log)
    /\ \E i \in Survivors(log) : TRUE

\* C2: an open entity stays open until the end tag that matches its own root
\* start tag: while only unmarked links were opened and closed inside it and
\* its own end tag has not come, the entity is still the current one and a
\* watched marker seen since the root is recorded in it.
C2_OpenUntilMatchingEnd ==
    (RootStarts(log) # {} /\ err = "none") =>
        LET r == Max(RootStarts(log))
            Depth(j) == 1 + Cardinality({k \in (r + 1)..j : IsStart(log[k], "a")})
                          - Cardinality({k \in (r + 1)..j : IsEndA(log[k])})
            unmatched == \A j \in (r + 1)..Len(log) : Depth(j) > 0
            plainOnly == \A k \in (r + 1)..Len(log) : ~HasMarker(log[k])
            watchedSeen == \E k \in (r + 1)..Len(log) :
                              /\ IsStart(log[k], "div")
                              /\ StrAttr(log[k], "class")
                              /\ In(S("watched-icon-layer"), log[k].attrs["class"].v)
        IN (unmatched /\ plainOnly) =>
               /\ Truthy(current_item)
               /\ current_item.v["imdb_id"].v = RootId(log[r])
               /\ watchedSeen => current_item.v["is_watched"] = PyBool(TRUE)

InPercentRange(x) == NumGE(x, PyInt(0)) /\ NumGE(PyInt(100), x)

\* C3: progressPercent of the open entity and of every finalized RawEntity is
\* in the closed range [0, 100].
C3_ProgressInRange ==
    /\ \A n \in 1..Len(items) : InPercentRange(items[n]["progress"])
    /\ Truthy(current_item) => InPercentRange(current_item.v["progress"])

BareNames == {"class", "href", "title", "style"}
HasBare(attrs) == \E k \in DOMAIN attrs \cap BareNames : IsNone(attrs[k])
WithoutBare(attrs) ==
    [k \in {j \in DOMAIN attrs : ~(j \in BareNames /\ IsNone(attrs[j]))} |-> attrs[k]]

\* C4: a start tag with a valueless class, href, title or style attribute
\* does what the same tag without that attribute does, and raises nothing.
C4_BareAttributeIsAbsent ==
    [][(log' # log /\ Last(log').kind = "start" /\ HasBare(Last(log').attrs)) =>
           /\ err' = "none"
           /\ Parser' = handle_starttag(Parser, Last(log').tag,
                                        WithoutBare(Last(log').attrs))]_vars

\* C5: a handler call whose attributes all have values never raises: the
\* scan of malformed markup runs to completion (a progress bar with a width
\* such as 1.2.3% included).
C5_ScanRunsToCompletion ==
    (log # <<>> /\ \A k \in DOMAIN Last(log).attrs : ~IsNone(Last(log).attrs[k]))
        => err = "none"

\* C6: once posterUrl of the open entity is set, no later descendant start
\* tag of that entity changes it.
C6_PosterFirstWins ==
    [][(/\ Truthy(current_item)
        /\ Truthy(current_item.v["poster_url"])
        /\ log' # log
        /\ Last(log').kind = "start"
        /\ ~IsRootStart(Last(log'))
        /\ err' = "none") =>
           /\ Truthy(current_item')
           /\ current_item'.v["poster_url"] = current_item.v["poster_url"]]_vars

IsAltImg(e) == IsStart(e, "img") /\ StrAttr(e, "alt") /\ Len(e.attrs["alt"].v) > 0

\* C7 as stated: the displayTitle of a finalized entity is the root's title
\* attribute when that is non-empty, and otherwise the alt text of an image
\* found anywhere in the entity, whatever label text came before the image.
C7_TitleBySourcePriority ==
    [][(Len(items') > Len(items) /\ RootStarts(log) # {}) =>
           LET r == Max(RootStarts(log))
               rootTitle == Get(log[r].attrs, "title", PyStr(<<>>))
               alts == {k \in (r + 1)..Len(log) : IsAltImg(log[k])}
               title == Get(Last(items'), "title", None)
           IN /\ Truthy(rootTitle) => title = rootTitle
              /\ (~Truthy(rootTitle) /\ alts # {}) =>
                     title = log[CHOOSE k \in alts : \A j \in alts : k <= j].attrs["alt"]]_vars

\* the text a data call hands to displayTitle: capture is armed for the title
TitleText(e) ==
    IF /\ e.kind = "data"
       /\ capture_text
       /\ current_text_field = PyStr(S("title_text"))
       /\ Len(Strip(e.data)) > 0
    THEN PyStr(Strip(e.data)) ELSE None

\* C7 amended: displayTitle is first-wins in document order: it starts as the
\* root's title attribute; while it is empty, the first image alt text or
\* captured label text to arrive sets it, whichever comes first; once it is
\* non-empty no later tag or text of the entity changes it, and the end tag
\* finalizes the entity with that title.
C7_TitleFirstNonEmptyWins ==
    [][(log' # log /\ err' = "none") =>
           LET e == Last(log')
               old == current_item.v["title"]
           IN /\ IsRootStart(e) =>
                     current_item'.v["title"] = Get(e.attrs, "title", PyStr(<<>>))
              /\ (Truthy(current_item) /\ ~IsRootStart(e) /\ ~IsEndA(e)) =>
                     current_item'.v["title"] =
                         IF Truthy(old) THEN old
                         ELSE IF IsAltImg(e) THEN e.attrs["alt"]
                         ELSE IF Truthy(TitleText(e)) THEN TitleText(e)
                         ELSE old
              /\ (Truthy(current_item) /\ IsEndA(e)) =>
                     /\ Len(items') = Len(items) + 1
                     /\ Get(Last(items'), "title", None) = old]_vars

C7_Witness ==
    /\ Len(items) = 1
    /\ Get(items[1], "title", None) = PyStr(S("Name"))
    /\ \E k \in 1..Len(log) : IsAltImg(log[k])
    /\ Get(log[Max(RootStarts(log))].attrs, "title", None) = PyStr(<<>>)

-----------------------------------------------------------------------------
(* Properties of the transformer, stated on the run of main(): items is the  *)
(* scanned sequence, main_items the entities that reached the transformer,   *)
(* output the entries, in states where the entries have been produced.       *)

Emitted == pc = "write" \/ (pc = "exit" /\ exit_code = 0 /\ Len(written) = 2)

HasBoth(e) == "season" \in DOMAIN e /\ "episode" \in DOMAIN e

\* C8: an entry's kind is episode exactly when its entity has both season
\* and episode, and is the entity's own kind otherwise; the entry has season
\* and episode fields, with the entity's values, exactly when it is an episode.
C8_EpisodeIffSeasonAndEpisode ==
    Emitted =>
        /\ Len(output) = Len(main_items)
        /\ \A i \in 1..Len(main_items) :
              LET e == main_items[i]
                  o == output[i]
              IN /\ (o["type"] = PyStr(S("episode"))) <=> HasBoth(e)
                 /\ ~HasBoth(e) => o["type"] = e["type"]
                 /\ ("season" \in DOMAIN o) <=> HasBoth(e)
                 /\ ("episode" \in DOMAIN o) <=> HasBoth(e)
                 /\ HasBoth(e) => o["season"] = e["season"] /\ o["episode"] = e["episode"]

C8_Witness ==
    /\ Emitted
    /\ \E i \in 1..Len(output) :
          /\ Get(main_items[i], "season", None) = PyInt(0)
          /\ output[i]["type"] = PyStr(S("episode"))
    /\ \E i \in 1..Len(output) :
          /\ main_items[i]["type"] = PyStr(S("movie"))
          /\ HasBoth(main_items[i])
          /\ output[i]["type"] = PyStr(S("episode"))

\* the watched test of the specification: the marker, or progress above 90
Watched(e) == e["is_watched"] = PyBool(TRUE) \/ NumGT(e["progress"], PyInt(90))
IsTimestamp(x) == \E now \in Clock : x = PyStr(now \o S("Z"))
Occurrences(seq, e) == Cardinality({i \in 1..Len(seq) : seq[i] = e})

\* C9: an entry has watchedAt exactly when its entity has the watched marker
\* or progress above 90; with watchedOnly every entry has watchedAt and the
\* watched filter removes no watched entity; watchedAt is "unknown" unless
\* useCurrentDateForWatched is set, and then a timestamp.
C9_WatchedAtIffWatched ==
    Emitted =>
        /\ Len(output) = Len(main_items)
        /\ \A i \in 1..Len(output) :
              /\ ("watched_at" \in DOMAIN output[i]) <=> Watched(main_items[i])
              /\ args.watched_only => "watched_at" \in DOMAIN output[i]
              /\ "watched_at" \in DOMAIN output[i] =>
                     IF args.use_current_date
                     THEN IsTimestamp(output[i]["watched_at"])
                     ELSE output[i]["watched_at"] = PyStr(S("unknown"))
        /\ \A n \in 1..Len(items) :
              (Watched(items[n]) /\ NumGE(items[n]["progress"], args.min_progress)) =>
                  Occurrences(main_items, items[n]) = Occurrences(items, items[n])

C9_Witness ==
    /\ Emitted
    /\ args.use_current_date
    /\ \E i \in 1..Len(output) :
          /\ main_items[i]["progress"] = PyFloat(0, 1029, 27262976, 0)
          /\ "watched_at" \notin DOMAIN output[i]
    /\ \E i \in 1..Len(output) :
          /\ main_items[i]["is_watched"] = PyBool(FALSE)
          /\ IsTimestamp(Get(output[i], "watched_at", None))

\* the entities the specification keeps: it drops the ones whose progress is
\* below minimumProgress and, with watchedOnly, the ones that are not watched
Kept(e) == /\ ~NumGT(args.min_progress, e["progress"])
           /\ ~args.watched_only \/ Watched(e)

\* the entities of C10 as it is worded: progress >= minimumProgress and, with
\* watchedOnly, watched
AtOrAbove(e) == /\ NumGE(e["progress"], args.min_progress)
                /\ ~args.watched_only \/ Watched(e)

\* C10 (as worded): for every minimumProgress value m, the output has an
\* entry for an entity exactly when its progress is >= m and, with
\* watchedOnly, it is watched.
C10_OutputIsTheEntitiesAtOrAbove ==
    Emitted =>
        /\ main_items = SelectSeq(items, AtOrAbove)
        /\ Len(output) = Len(SelectSeq(items, AtOrAbove))

\* C10 (amended): the output has an entry for an entity exactly when its
\* progress is not below minimumProgress and, with watchedOnly, it is
\* watched; the entries are those of the kept entities, in order.  For every
\* number m, not below m is progress >= m, and an entity at m is kept; for
\* the nan that float() also makes of the option, no progress is below it and
\* every entity is kept.
C10_OutputIsTheKeptEntities ==
    Emitted =>
        /\ main_items = SelectSeq(items, Kept)
        /\ Len(output) = Len(SelectSeq(items, Kept))
        /\ \A i \in 1..Len(output) :
              /\ output[i]["imdb_id"] = SelectSeq(items, Kept)[i]["imdb_id"]
              /\ output[i]["_href"] = SelectSeq(items, Kept)[i]["href"]

C10_Witness ==
    /\ Emitted
    /\ args.min_progress = PyFloat(0, 1029, 27262976, 0)
    /\ ~args.watched_only
    /\ Len(output) = 1
    /\ Len(items) = 2
    /\ Get(output[1], "_progress", None) = PyFloat(0, 1029, 27262976, 0)

\* C11: watchlistedAt depends only on the configuration: when
\* omitWatchlistTimestamp is off every entry has watchlistedAt, a timestamp,
\* whether its entity is watched or not; when it is on no entry has it.
C11_WatchlistedAtByConfigurationOnly ==
    Emitted =>
        \A i \in 1..Len(output) :
            /\ ("watchlisted_at" \in DOMAIN output[i]) <=> ~args.no_watchlist
            /\ "watchlisted_at" \in DOMAIN output[i] =>
                   IsTimestamp(output[i]["watchlisted_at"])

C11_Witness ==
    /\ Emitted
    /\ ~args.no_watchlist
    /\ \E i, j \in 1..Len(output) :
          /\ "watched_at" \in DOMAIN output[i]
          /\ "watched_at" \notin DOMAIN output[j]
          /\ IsTimestamp(Get(output[i], "watchlisted_at", None))
          /\ IsTimestamp(Get(output[j], "watchlisted_at", None))

IsPyStr(x) == x.t = "str"
\* the optional fields of an entry that the transformer fills from the entity
OptionalEntryFields == {"title", "_poster_url", "_year", "_duration", "_progress"}

\* C12: the transformer maps the surviving entities one to one and in order:
\* as many entries as entities that passed the filters, the i-th entry with
\* the identifier of the i-th surviving entity and with identifier and kind
\* present, whatever optional fields are missing; the scanned sequence is in
\* the order in which the entity roots were closed (the roots that were
\* still open at their link end tag, in the order of those end tags).
C12_EntriesMatchSurvivorsInOrder ==
    Emitted =>
        /\ Len(output) = Len(main_items)
        /\ \A i \in 1..Len(output) :
              /\ {"imdb_id", "type"} \subseteq DOMAIN output[i]
              /\ IsPyStr(output[i]["imdb_id"]) /\ IsPyStr(output[i]["type"])
              /\ output[i]["imdb_id"] = main_items[i]["imdb_id"]
        /\ LET closed == Survivors(log)
           IN /\ Len(items) = Cardinality(closed)
              /\ \A n \in 1..Len(items) : ItemId(n) = RootId(log[Nth(closed, n)])

C12_Witness ==
    /\ Emitted
    /\ Len(output) = 2
    /\ output[1]["imdb_id"] = PyStr(S("tt4"))
    /\ output[2]["imdb_id"] = PyStr(S("tt1"))
    /\ DOMAIN output[1] \cap OptionalEntryFields = {"_progress"}
    /\ DOMAIN output[2] \cap OptionalEntryFields = {"title"}

\* the scan has gone through the whole document without an exception
ScanCompleted == html_content.read /\ err = "none" /\ log = html_content.events

\* C13: a run ends with a non-zero status exactly when the document is empty
\* or whitespace-only, or when the scan completes with zero records; in both
\* cases nothing has been written to the data output.
C13_FailsOnlyOnEmptyOrNoEntities ==
    pc = "exit" =>
        /\ exit_code # 0 <=>
               (html_content.blank \/ (ScanCompleted /\ Len(items) = 0))
        /\ exit_code # 0 => written = <<>>

\* the root start tag of the n-th record, and the events between it and the
\* link end tag that finalized it
RootOf(n) == Nth(Survivors(log), n)
Inside(n) == LET i == RootOf(n)
                 ends == EndAs(log)
                 j == CHOOSE e \in ends : e > i /\ \A f \in ends : f > i => e <= f
             IN {log[k] : k \in (i + 1)..(j - 1)}
NoTitleAttr(e) == "title" \notin DOMAIN e.attrs
\* the fields the scanner creates as null (lines 70-77)
NullableFields == {"season", "episode", "poster_url", "poster_shape", "year", "duration",
                   "episode_title", "release_info"}
NoNulls(e) == \A k \in DOMAIN e : ~IsNone(e[k])

\* C14 as stated: in a finalized RawEntity no field holds null, and
\* displayTitle is absent, never present with an empty value, when the root has
\* no title attribute and no image alt text or label text was found.
C14_UndiscoveredTitleAbsent ==
    \A n \in 1..Len(items) :
        /\ NoNulls(items[n])
        /\ (NoTitleAttr(log[RootOf(n)]) /\ "title" \in DOMAIN items[n]) =>
               items[n]["title"] # PyStr(<<>>)

\* C14 amended: in a finalized RawEntity no field holds null; season and
\* episode are present exactly when the link target has the episode form, and
\* after a root with no descendant start tag or text none of the other fields
\* created as null is present; displayTitle is present all the same when the
\* root has no title attribute, and is the empty string when no image alt
\* text and no text was found in the entity.
C14_NoNullsButEmptyTitleKept ==
    \A n \in 1..Len(items) :
        LET root == log[RootOf(n)]
            inside == Inside(n)
            found == NullableFields \cap DOMAIN items[n]
        IN /\ NoNulls(items[n])
           /\ found \cap {"season", "episode"} =
                  IF EpisodeForms[root.attrs["href"].v].matched
                  THEN {"season", "episode"} ELSE {}
           /\ (\A e \in inside : e.kind = "end") => found \subseteq {"season", "episode"}
           /\ NoTitleAttr(root) =>
                  /\ "title" \in DOMAIN items[n]
                  /\ (\A e \in inside : e.kind # "data" /\ ~IsAltImg(e)) =>
                         items[n]["title"] = PyStr(<<>>)

C14_Witness ==
    \E n \in 1..Len(items) :
        /\ NoTitleAttr(log[RootOf(n)])
        /\ Get(items[n], "title", None) = PyStr(<<>>)
        /\ NullableFields \cap DOMAIN items[n] = {"season", "episode"}
        /\ \E e \in Inside(n) : e.kind = "start"

\* the records of a scanner state: the finalized ones and the open one
Records == {items[n] : n \in 1..Len(items)}
               \cup (IF Open(Parser) THEN {current_item.v} ELSE {})
Season(e) == Get(e, "season", None)
Episode(e) == Get(e, "episode", None)
BothOrNeither(e) == IsNone(Season(e)) <=> IsNone(Episode(e))
IsPyIntFrom(x, least) == x.t = "int" /\ NumGE(x, PyInt(least))

\* C15: in every record, open or finalized, season and episode are both
\* present or both absent, and when present both are positive integers.
C15_SeasonEpisodePositive ==
    \A e \in Records :
        /\ BothOrNeither(e)
        /\ ~IsNone(Season(e)) => IsPyIntFrom(Season(e), 1) /\ IsPyIntFrom(Episode(e), 1)

\* the handler call of a step, when the step is one
Fed == log' # log
Event == Last(log')
NoEntityOpen == ~Open(Parser)
\* a link start tag with the marker class whose link target has no identifier
IsRootWithoutId(e) == HasMarker(e) /\ ~IsRootStart(e)
\* an unparseable root has been opened outside an entity and not yet closed
InUnparsedRoot ==
    \E i \in 1..Len(log) :
        /\ IsRootWithoutId(log[i])
        /\ \A k \in i..Len(log) : ~IsEndA(log[k]) /\ ~IsRootStart(log[k])
        /\ \A k \in 1..(i - 1) :
              IsRootStart(log[k]) => \E j \in (k + 1)..(i - 1) : IsEndA(log[j])

\* C16: outside an open entity the output is framed: a container-marked link
\* start tag without a parseable identifier creates no record, and the tags
\* and text after it up to its end tag set no field; a link end tag that
\* arrives when no entity is open leaves the output sequence and the current
\* entity unchanged; a record already appended is never modified.
C16_FramedOutsideEntity ==
    [][Fed =>
         /\ SubSeq(items', 1, Len(items)) = items
         /\ (NoEntityOpen /\ IsRootWithoutId(Event)) =>
                items' = items /\ current_item' = None
         /\ (NoEntityOpen /\ InUnparsedRoot /\ ~IsRootStart(Event)) =>
                items' = items /\ current_item' = None
         /\ (NoEntityOpen /\ IsEndA(Event)) =>
                items' = items /\ current_item' = current_item]_vars

C16_Witness ==
    /\ Len(log) = 5
    /\ Len(items) = 1
    /\ ~IsEndA(log[1])
    /\ IsEndA(log[2])
    /\ IsRootWithoutId(log[3])
    /\ log[4].kind = "data"
    /\ IsEndA(log[5])
    /\ NoEntityOpen

\* a div start tag whose class uses the camel-case progress-bar naming, in
\* any letter case, and whose style has a width percentage that is a number
IsCamelBar(e) ==
    /\ IsStart(e, "div")
    /\ StrAttr(e, "class") /\ In(S("progressbar"), Lower(e.attrs["class"].v))
    /\ StrAttr(e, "style") /\ WidthSearch(e.attrs["style"].v).matched
    /\ ~FloatRaises(WidthSearch(e.attrs["style"].v).g1)

\* C17: inside an open entity, an element whose class uses the camel-case
\* progress-bar naming and whose style has a width percentage sets
\* progressPercent to that percentage, as the hyphenated naming does.
C17_CamelCaseBarSetsProgress ==
    [][(Fed /\ Open(Parser) /\ IsCamelBar(Event)) =>
          current_item'.v["progress"] = FloatOf(WidthSearch(Event.attrs["style"].v).g1)]_vars

\* a link end tag has just finalized an entity
Finalized == Fed /\ IsEndA(Event) /\ Len(items') = Len(items) + 1

\* a div, span or p start tag with a class has come since the root start tag
\* of the open entity
ArmedInThisEntity ==
    LET root == Max(RootStarts(log))
    IN \E k \in (root + 1)..Len(log) :
          /\ log[k].kind = "start"
          /\ log[k].tag \in TextTags
          /\ "class" \in DOMAIN log[k].attrs

\* C18: finalizing an entity clears the text capture with the rest of the
\* scanner state: after the link end tag that finalized an entity capture is
\* off and has no target, and text that comes in an entity before any div,
\* span or p start tag of that entity sets none of its fields (capture armed
\* by an element that was never closed does not reach the next entity).
C18_FinalizingClearsCapture ==
    [][/\ Finalized => (capture_text' = FALSE /\ current_text_field' = None)
       /\ (Fed /\ Event.kind = "data" /\ Open(Parser) /\ ~ArmedInThisEntity) =>
              current_item' = current_item]_vars

\* the capture rules a class matches, by the words of the specification
HasWord(c, words) == \E w \in words : In(S(w), Lower(c))
MatchesTitle(c) == HasWord(c, {"title", "name", "label"})
MatchesRelease(c) == HasWord(c, {"year", "release", "date"})
MatchesDuration(c) == HasWord(c, {"duration", "runtime", "time"})
MatchesEpisodeTitle(c) == HasWord(c, {"episode"}) /\ HasWord(c, {"title"})
\* the last matching rule in the order title, release, duration, episode title
LastRule(c) == IF MatchesEpisodeTitle(c) THEN S("episode_title")
               ELSE IF MatchesDuration(c) THEN S("duration")
               ELSE IF MatchesRelease(c) THEN S("release_info")
               ELSE IF MatchesTitle(c) THEN S("title_text")
               ELSE S("none")
NumberOfRules(c) ==
    Cardinality({r \in {"t", "r", "d", "e"} :
                    \/ r = "t" /\ MatchesTitle(c)
                    \/ r = "r" /\ MatchesRelease(c)
                    \/ r = "d" /\ MatchesDuration(c)
                    \/ r = "e" /\ MatchesEpisodeTitle(c)})
IsTextStart(e) == e.kind = "start" /\ e.tag \in TextTags /\ StrAttr(e, "class")
IsTextEnd(e) == e.kind = "end" /\ e.tag \in TextTags
\* the field of the record a capture target stands for
FieldOf(target) == CASE target = PyStr(S("title_text")) -> "title"
                     [] target = PyStr(S("episode_title")) -> "episode_title"
                     [] target = PyStr(S("duration")) -> "duration"
                     [] target = PyStr(S("release_info")) -> "release_info"

\* C19: a div, span or p start tag inside an open entity whose class matches
\* several capture rules arms the last matching rule in the order title,
\* release, duration, episode title; the next text goes to that target only
\* (episodeTitle and not displayTitle, durationText and not releaseInfoText);
\* the next div, span or p end tag disarms capture whatever it closes, and no
\* event other than such a start tag or end tag changes the target.
C19_LastMatchingRuleIsTarget ==
    [][Fed =>
         /\ (Open(Parser) /\ IsTextStart(Event)
                 /\ NumberOfRules(Event.attrs["class"].v) >= 2) =>
                /\ capture_text' = TRUE
                /\ current_text_field' = PyStr(LastRule(Event.attrs["class"].v))
         /\ (Open(Parser) /\ capture_text /\ Event.kind = "data"
                 /\ Len(Strip(Event.data)) > 0
                 /\ current_text_field \in {PyStr(S("episode_title")), PyStr(S("duration"))}) =>
                current_item' =
                    PyDict(SetItem(current_item.v, FieldOf(current_text_field),
                                   PyStr(Strip(Event.data))))
         /\ IsTextEnd(Event) => (capture_text' = FALSE /\ current_text_field' = None)
         /\ (~IsTextEnd(Event) /\ ~(Open(Parser) /\ IsTextStart(Event))) =>
                (capture_text' = capture_text /\ current_text_field' = current_text_field)]_vars

C19_Witness ==
    /\ Open(Parser)
    /\ capture_text
    /\ current_text_field = PyStr(S("duration"))
    /\ current_item.v["episode_title"] = PyStr(S("Name"))
    /\ current_item.v["duration"] = PyStr(S("Name"))
    /\ current_item.v["title"] = PyStr(<<>>)
    /\ IsNone(current_item.v["release_info"])

\* the configurations of the specification: minimumProgress is a float and
\* the data output a stream (a command line can also leave an empty list in
\* the place of either)
Configured == args.min_progress.t \in {"int", "float"} /\ args.output.t # "list"

\* C20: NoEntitiesFound depends only on the scan: a run under a configuration
\* of the specification (minimumProgress a number, the data output a stream)
\* whose scan found at least one entity does not fail, also when
\* minimumProgress and watchedOnly remove every entity; it ends normally and
\* has written the entries, an empty JSON array when none is kept, and a
\* newline.
C20_EmptyAfterFiltersIsNotAFailure ==
    (pc = "exit" /\ Configured /\ ~html_content.blank /\ ScanCompleted
     /\ Len(items) >= 1) =>
        /\ exit_code = 0
        /\ written = <<output, S("\n")>>
        /\ SelectSeq(items, Kept) = <<>> => output = <<>>

C20_Witness ==
    /\ pc = "exit"
    /\ Len(items) = 2
    /\ args.watched_only
    /\ NumGT(args.min_progress, PyInt(0))
    /\ \E n \in 1..2 : NumGE(items[n]["progress"], args.min_progress)
    /\ exit_code = 0
    /\ written = <<<<>>, S("\n")>>

====
